---------------------------- MODULE Spec2Model ----------------------------
(***************************************************************************)
(* mcp-dependency-doctor: the detect_conflicts classifier, the version     *)
(* utilities, the suggest_solutions generator, the registry client and     *)
(* apply_fix.                                                              *)
(*                                                                         *)
(* A project (root manifest, package manager, package-manager listings,    *)
(* workspace members, runtime version) and a request (checkTypes,          *)
(* severity) are fixed by Init; the actions are the steps of               *)
(* detectConflicts, one per awaited read or check.  The specifications of  *)
(* the version utilities and of suggest_solutions use the same variables:  *)
(* input is the call or the request, output what it returned or threw.     *)
(* The sections of the registry client and of apply_fix say how they use   *)
(* the variables; apply_fix is the one that writes to project.             *)
(*                                                                         *)
(* JavaScript objects, Maps and Sets keep insertion order, so they are     *)
(* sequences here: an object is a sequence of [k, v] entries with distinct *)
(* keys, a Set a sequence without repetition.                              *)
(***************************************************************************)
EXTENDS Integers, Sequences, FiniteSets, TLC

VARIABLES
    project,    \* what is on disk and what the tools print
    input,      \* the DetectConflictsInput of the request
    pc,         \* position of detectConflicts
    run,        \* 1 for the first request, 2 for the repeated one
    pmName,     \* pmInfo.name
    workspacePackages,
    issues,     \* the issues array of detectConflicts
    output,     \* what detectConflicts returned or threw
    firstOutput,\* the output of run 1, kept for comparison with run 2
    rng         \* how many numbers Math.random has drawn

vars == <<project, input, pc, run, pmName, workspacePackages, issues, output,
          firstOutput, rng>>

----------------------------------------------------------------------------
(* Bounds of the model.                                                    *)

\* most lines a package-manager listing prints on stderr
MaxStderrLines == 2
\* most entries of the "problems" array of npm ls
MaxProblems == 2
\* most entries of the top-level "dependencies" object of npm ls
MaxTop == 2
\* most entries of a nested "dependencies" object
MaxKids == 1
\* most workspace members
MaxMembers == 2
\* most entries of the "overrides" object of the root manifest
MaxOverrides == 2
\* most versions in the array given to getMaxSatisfying
MaxVersions == 3
\* most numbers Math.random draws for the ids of one suggest_solutions request
MaxDraws == 4
\* most candidates in the array given to generateComparison on its own
MaxSolutions == 3

----------------------------------------------------------------------------
(* Ordered collections.                                                    *)

Range(s) == {s[i] : i \in 1..Len(s)}

Last(s) == s[Len(s)]

\* sequences over S of length at most n
SeqUpTo(S, n) == UNION {[1..k -> S] : k \in 0..n}

\* object entries: sequences of [k, v] with distinct keys
IsObject(s) == \A i, j \in 1..Len(s) : s[i].k = s[j].k => i = j

Objects(K, V, n) == {s \in SeqUpTo([k : K, v : V], n) : IsObject(s)}

HasKey(obj, key) == \E i \in 1..Len(obj) : obj[i].k = key

Get(obj, key) == (CHOOSE e \in Range(obj) : e.k = key).v

\* obj[key] = value: an existing key keeps its position, a new key goes last
Put(obj, key, value) ==
    IF HasKey(obj, key)
    THEN [i \in 1..Len(obj) |->
            IF obj[i].k = key THEN [k |-> key, v |-> value] ELSE obj[i]]
    ELSE Append(obj, [k |-> key, v |-> value])

RECURSIVE Assign(_, _)
\* Object.assign(target, source) and the spread {...a, ...b}
Assign(target, source) ==
    IF source = <<>> THEN target
    ELSE Assign(Put(target, source[1].k, source[1].v), Tail(source))

\* Set.add
SetAdd(s, x) == IF x \in Range(s) THEN s ELSE Append(s, x)

RECURSIVE Flat(_)
\* Array.prototype.flat on an array of arrays
Flat(ss) == IF ss = <<>> THEN <<>> ELSE ss[1] \o Flat(Tail(ss))

RECURSIVE SumSeq(_)
SumSeq(s) == IF s = <<>> THEN 0 ELSE s[1] + SumSeq(Tail(s))

----------------------------------------------------------------------------
(* The semver package, as far as satisfiesVersion uses it.                 *)
(*                                                                         *)
(* Version and range strings are parsed by table: the strings below are    *)
(* the ones the model's projects use.  pre is 0 for a release, 1 for the   *)
(* prerelease tag "-0" (the lowest one) and 2 for any other tag.  A        *)
(* leading "v" is part of the version syntax; the empty range and "*" are  *)
(* the range of every release version.                                     *)

NoSemVer == [valid |-> FALSE, major |-> 0, minor |-> 0, patch |-> 0, pre |-> 0]

V(ma, mi, pa, pr) ==
    [valid |-> TRUE, major |-> ma, minor |-> mi, patch |-> pa, pre |-> pr]

\* new SemVer(version): the parsed version, or not valid (the constructor throws)
SemVer(version) ==
    CASE version = "16.20.2"         -> V(16, 20, 2, 0)
      [] version = "18.0.0"          -> V(18, 0, 0, 0)
      [] version = "18.4.0"          -> V(18, 4, 0, 0)
      [] version = "20.1.0"          -> V(20, 1, 0, 0)
      [] version = "22.0.0-nightly"  -> V(22, 0, 0, 2)
      [] version = "1.0.0"           -> V(1, 0, 0, 0)
      [] version = "1.9.0"           -> V(1, 9, 0, 0)
      [] version = "1.2.0"           -> V(1, 2, 0, 0)
      [] version = "1.3.0"           -> V(1, 3, 0, 0)
      [] version = "v1.3.0"          -> V(1, 3, 0, 0)
      [] version = "1.4.0-beta"      -> V(1, 4, 0, 2)
      [] version = "2.0.0"           -> V(2, 0, 0, 0)
      [] OTHER                       -> NoSemVer

\* the shape of a range string: its operator and the version parts it writes
\* (minor and patch are -1 where the string leaves them out)
RangeShape(range) ==
    CASE range = ">=16"      -> [op |-> ">=", major |-> 16, minor |-> -1, patch |-> -1]
      [] range = ">=18"      -> [op |-> ">=", major |-> 18, minor |-> -1, patch |-> -1]
      [] range = ">=20"      -> [op |-> ">=", major |-> 20, minor |-> -1, patch |-> -1]
      [] range = ">=18.4.0"  -> [op |-> ">=", major |-> 18, minor |-> 4, patch |-> 0]
      [] range = ">=20.1.0"  -> [op |-> ">=", major |-> 20, minor |-> 1, patch |-> 0]
      [] range = "^18.0.0"   -> [op |-> "^", major |-> 18, minor |-> 0, patch |-> 0]
      [] range = "^20.1.0"   -> [op |-> "^", major |-> 20, minor |-> 1, patch |-> 0]
      [] range = "<18"       -> [op |-> "<", major |-> 18, minor |-> -1, patch |-> -1]
      [] range = "18.x"      -> [op |-> "x", major |-> 18, minor |-> -1, patch |-> -1]
      [] range = "20.1.0"    -> [op |-> "=", major |-> 20, minor |-> 1, patch |-> 0]
      [] range = "^1.2.0"    -> [op |-> "^", major |-> 1, minor |-> 2, patch |-> 0]
      [] range = "^2.0.0"    -> [op |-> "^", major |-> 2, minor |-> 0, patch |-> 0]
      [] range = ">=1.3.0"   -> [op |-> ">=", major |-> 1, minor |-> 3, patch |-> 0]
      [] range = "<2"        -> [op |-> "<", major |-> 2, minor |-> -1, patch |-> -1]
      [] range = "1.x"       -> [op |-> "x", major |-> 1, minor |-> -1, patch |-> -1]
      [] range = "1.3.0"     -> [op |-> "=", major |-> 1, minor |-> 3, patch |-> 0]
      [] range = "*"         -> [op |-> "*", major |-> 0, minor |-> -1, patch |-> -1]
      [] range = ""          -> [op |-> "*", major |-> 0, minor |-> -1, patch |-> -1]
      [] OTHER               -> [op |-> "invalid", major |-> 0, minor |-> 0, patch |-> 0]

Num(n) == IF n < 0 THEN 0 ELSE n

\* new Range(range).set: the comparators the range desugars to (one
\* comparator set; none of the ranges above has "||")
Comparators(range) ==
    LET r  == RangeShape(range)
        lo == V(r.major, Num(r.minor), Num(r.patch), 0)
        up == V(r.major + 1, 0, 0, 1)
    IN  CASE r.op = ">=" -> {[op |-> ">=", semver |-> lo]}
          [] r.op = "^"  -> {[op |-> ">=", semver |-> lo], [op |-> "<", semver |-> up]}
          [] r.op = "x"  -> {[op |-> ">=", semver |-> lo], [op |-> "<", semver |-> up]}
          [] r.op = "<"  -> {[op |-> "<", semver |-> V(r.major, 0, 0, 1)]}
          [] r.op = "="  -> {[op |-> "=", semver |-> lo]}
          [] r.op = "*"  -> {[op |-> ">=", semver |-> V(0, 0, 0, 0)]}
          [] OTHER       -> {}

ValidRange(range) == RangeShape(range).op # "invalid"

Sign(a, b) == IF a < b THEN -1 ELSE IF a > b THEN 1 ELSE 0

\* SemVer.comparePre: a release is above each of its prereleases
ComparePre(a, b) ==
    IF a.pre = 0 /\ b.pre = 0 THEN 0
    ELSE IF a.pre = 0 THEN 1
    ELSE IF b.pre = 0 THEN -1
    ELSE Sign(a.pre, b.pre)

\* SemVer.compare
Compare(a, b) ==
    IF a.major # b.major THEN Sign(a.major, b.major)
    ELSE IF a.minor # b.minor THEN Sign(a.minor, b.minor)
    ELSE IF a.patch # b.patch THEN Sign(a.patch, b.patch)
    ELSE ComparePre(a, b)

\* Comparator.test
ComparatorTest(c, v) ==
    CASE c.op = ">=" -> Compare(v, c.semver) >= 0
      [] c.op = "<"  -> Compare(v, c.semver) < 0
      [] OTHER       -> Compare(v, c.semver) = 0

\* testSet: every comparator passes, and a prerelease version passes only
\* when a comparator with a prerelease tag names the same major.minor.patch
TestSet(set, v) ==
    /\ \A c \in set : ComparatorTest(c, v)
    /\ v.pre # 0 =>
         \E c \in set : /\ c.semver.pre # 0
                        /\ c.semver.major = v.major
                        /\ c.semver.minor = v.minor
                        /\ c.semver.patch = v.patch

\* semver.satisfies: false when the range or the version does not parse
Satisfies(version, range) ==
    /\ ValidRange(range)
    /\ SemVer(version).valid
    /\ TestSet(Comparators(range), SemVer(version))

\* the major-only comparison of detect_environment, in place of semver
satisfiesVersionMajorOnly(version, range) ==
    IF RangeShape(range).op = ">="
    THEN SemVer(version).major >= RangeShape(range).major
    ELSE TRUE

\* utils/index.ts satisfiesVersion: semver.satisfies, false if it throws
satisfiesVersion(version, range) == Satisfies(version, range)

\* detect-environment.ts isNodeVersionSatisfied: /^>=?\s*(\d+)/ against the
\* major of the current version; any other range counts as satisfied
isNodeVersionSatisfied(current, required) ==
    IF RangeShape(required).op = ">="
    THEN SemVer(current).major >= RangeShape(required).major
    ELSE TRUE

\* utils/index.ts generateId: the id made from draw number r of Math.random
generateId(r) == r

----------------------------------------------------------------------------
(* ConflictIssue records.  message and suggestedAction are the template    *)
(* and the values interpolated into it; a details field that the record    *)
(* does not carry is the empty sequence.                                   *)

NoDetails ==
    [peerDependency |-> <<>>, multipleVersions |-> <<>>, workspaceMismatch |-> <<>>,
     overrideRisk |-> <<>>, engineMismatch |-> <<>>]

Issue(type, severity, package, message, details, affectedPaths, suggestedAction) ==
    [id |-> 0, type |-> type, severity |-> severity, package |-> package,
     message |-> message, details |-> details, affectedPaths |-> affectedPaths,
     suggestedAction |-> suggestedAction]

\* issues.push({id: generateId(), ...}) for each record of `drafts`, in order,
\* Math.random advancing by one draw per record
PushAll(drafts, r) ==
    [issues |-> [i \in 1..Len(drafts) |->
                    [drafts[i] EXCEPT !.id = generateId(r + i - 1)]],
     rng |-> r + Len(drafts)]

\* problem.match(/peer dep missing: (.+)@(.+), required by (.+)/)
PeerMatch(problem) ==
    CASE problem = "peer dep missing: x@^1.0.0, required by a@1.0.0" ->
           <<"x", "^1.0.0", "a@1.0.0">>
      [] problem = "peer dep missing: x@^1.0.0, required by b@2.0.0" ->
           <<"x", "^1.0.0", "b@2.0.0">>
      [] problem = "peer dep missing: y@2.x, required by a@1.0.0" ->
           <<"y", "2.x", "a@1.0.0">>
      [] OTHER -> <<>>

\* stderr.match(/WARN.*peer.*dep.*/gi): the matched part of each line of stderr
WarnMatch(line) ==
    CASE line = "npm WARN peer dep missing: x@^1.0.0" ->
           <<"WARN peer dep missing: x@^1.0.0">>
      [] line = "npm WARN peerDependencies of b@2.0.0 deprecated" ->
           <<"WARN peerDependencies of b@2.0.0 deprecated">>
      [] OTHER -> <<>>

PeerIssue(problem) ==
    LET m == PeerMatch(problem)
    IN  Issue("peer_dependency", "warning", m[1], <<problem>>,
              [NoDetails EXCEPT !.peerDependency =
                 <<[host |-> m[3], hostVersion |-> "", peerPackage |-> m[1],
                    required |-> m[2], installed |-> "null"]>>],
              <<m[3]>>, <<"install or check", m[1], m[2]>>)

WarnIssue(warning) ==
    Issue("peer_dependency", "warning", "unknown", <<warning>>, NoDetails,
          <<>>, <<"check peerDependencies">>)

KnownPm(pm) == pm \in {"npm", "pnpm", "yarn"}

\* part_000 detectPeerDependencyIssues: result is what execCommand returned
\* for the listing command of pm
detectPeerDependencyIssues(pm, result, r) ==
    IF ~KnownPm(pm) THEN PushAll(<<>>, r)
    ELSE
      LET problems ==
            IF pm = "npm" /\ result.stdout.kind = "json"
            THEN SelectSeq(result.stdout.problems, LAMBDA p : PeerMatch(p) # <<>>)
            ELSE <<>>
          fromStdout == [i \in 1..Len(problems) |-> PeerIssue(problems[i])]
          peerWarnings ==
            Flat([i \in 1..Len(result.stderr) |-> WarnMatch(result.stderr[i])])
          fromStderr == [i \in 1..Len(peerWarnings) |-> WarnIssue(peerWarnings[i])]
      IN  PushAll(fromStdout \o fromStderr, r)

RECURSIVE collectNpmVersions(_, _)
\* part_000 collectNpmVersions: dependencies is the object data.dependencies
\* (<<>> when data has none); versionMap is a Map name -> Set of versions.
\* Pre-order: a node's own version is added before its children are walked.
collectNpmVersions(dependencies, versionMap) ==
    IF dependencies = <<>> THEN versionMap
    ELSE
      LET name == dependencies[1].k
          info == dependencies[1].v
          own  == IF info.version # ""
                  THEN Put(versionMap, name,
                           SetAdd(IF HasKey(versionMap, name)
                                  THEN Get(versionMap, name) ELSE <<>>,
                                  info.version))
                  ELSE versionMap
          sub  == collectNpmVersions(info.dependencies, own)
      IN  collectNpmVersions(Tail(dependencies), sub)

\* more than two versions reported as an error
MultiIssueError(name, versionList) ==
    Issue("multiple_versions",
          IF Len(versionList) > 2 THEN "error" ELSE "info",
          name,
          <<"multiple versions", name, ToString(Len(versionList))>> \o versionList,
          [NoDetails EXCEPT !.multipleVersions =
             [i \in 1..Len(versionList) |->
                [version |-> versionList[i], paths |-> <<>>]]],
          <<>>, <<"unify", name>>)

\* part_000:315-329
MultiIssue(name, versionList) ==
    Issue("multiple_versions",
          IF Len(versionList) > 2 THEN "warning" ELSE "info",
          name,
          <<"multiple versions", name, ToString(Len(versionList))>> \o versionList,
          [NoDetails EXCEPT !.multipleVersions =
             [i \in 1..Len(versionList) |->
                [version |-> versionList[i], paths |-> <<>>]]],
          <<>>, <<"unify", name>>)

\* part_000 detectMultipleVersions: only the npm listing is parsed
detectMultipleVersions(pm, result, r) ==
    IF ~KnownPm(pm) THEN PushAll(<<>>, r)
    ELSE
      LET versionMap ==
            IF pm = "npm" /\ result.stdout.kind = "json"
            THEN collectNpmVersions(result.stdout.dependencies, <<>>)
            ELSE <<>>
          multi == SelectSeq(versionMap, LAMBDA e : Len(e.v) > 1)
      IN  PushAll([i \in 1..Len(multi) |-> MultiIssue(multi[i].k, multi[i].v)], r)

RECURSIVE Join(_, _)
\* Array.prototype.join
Join(strs, sep) ==
    IF strs = <<>> THEN ""
    ELSE IF Len(strs) = 1 THEN strs[1]
    ELSE strs[1] \o sep \o Join(Tail(strs), sep)

\* one [name, version] entry of a member's allDeps added to depVersions,
\* a Map name -> Map version -> list of workspace names
AddDeclaration(depVersions, wsName, name, version) ==
    LET pkgMap == IF HasKey(depVersions, name) THEN Get(depVersions, name) ELSE <<>>
        workspacesList == IF HasKey(pkgMap, version) THEN Get(pkgMap, version) ELSE <<>>
    IN  Put(depVersions, name, Put(pkgMap, version, Append(workspacesList, wsName)))

RECURSIVE AddMember(_, _, _)
AddMember(depVersions, wsName, allDeps) ==
    IF allDeps = <<>> THEN depVersions
    ELSE AddMember(AddDeclaration(depVersions, wsName, allDeps[1].k, allDeps[1].v),
                   wsName, Tail(allDeps))

\* {...ws.packageJson.dependencies, ...ws.packageJson.devDependencies}
AllDeps(ws) == Assign(Assign(<<>>, ws.dependencies), ws.devDependencies)

RECURSIVE CollectDepVersions(_, _)
CollectDepVersions(workspaces, depVersions) ==
    IF workspaces = <<>> THEN depVersions
    ELSE CollectDepVersions(Tail(workspaces),
                            AddMember(depVersions, workspaces[1].name,
                                      AllDeps(workspaces[1])))

MismatchIssue(pkgName, versionWorkspaces) ==
    Issue("workspace_mismatch", "warning", pkgName,
          <<"different versions across workspaces", pkgName>>,
          [NoDetails EXCEPT !.workspaceMismatch =
             [i \in 1..Len(versionWorkspaces) |->
                [workspace |-> Join(versionWorkspaces[i].v, ", "),
                 localVersion |-> versionWorkspaces[i].k,
                 usedVersions |-> <<versionWorkspaces[i].k>>]]],
          Flat([i \in 1..Len(versionWorkspaces) |-> versionWorkspaces[i].v]),
          <<"unify", pkgName>>)

\* part_000 detectWorkspaceMismatch
detectWorkspaceMismatch(workspaces, r) ==
    LET depVersions == CollectDepVersions(workspaces, <<>>)
        differing   == SelectSeq(depVersions, LAMBDA e : Len(e.v) > 1)
    IN  PushAll([i \in 1..Len(differing) |->
                   MismatchIssue(differing[i].k, differing[i].v)], r)

\* An override key is kept as the list of its ">"-separated segments, which
\* is what key.split(">") returns; the key string is the segments joined.
KeyString(segments) == Join(segments, ">")

RECURSIVE flattenOverrides(_, _, _)
\* detector.ts flattenOverrides: a value is a string (leaf) or a nested object
flattenOverrides(overrides, result, prefix) ==
    IF overrides = <<>> THEN result
    ELSE
      LET key     == overrides[1].k
          value   == overrides[1].v
          fullKey == IF prefix # <<>> THEN prefix \o key ELSE key
          here    == IF value.leaf
                     THEN Put(result, fullKey, value.str)
                     ELSE flattenOverrides(value.obj, result, fullKey)
      IN  flattenOverrides(Tail(overrides), here, prefix)

\* detector.ts getOverrides
getOverrides(packageJson, pm) ==
    CASE pm = "npm"  -> flattenOverrides(packageJson.overrides, <<>>, <<>>)
      [] pm = "pnpm" -> flattenOverrides(packageJson.overrides,
                                         Assign(<<>>, packageJson.pnpmOverrides), <<>>)
      [] pm = "yarn" -> Assign(<<>>, packageJson.resolutions)
      [] OTHER       -> <<>>

\* pkg.split(">").pop() || pkg
OverridePackage(pkg) == IF Last(pkg) # "" THEN Last(pkg) ELSE KeyString(pkg)

\* an override reported as a warning
OverrideIssueWarning(pkg, forcedVersion) ==
    LET pkgName == OverridePackage(pkg)
    IN  Issue("override_risk", "warning", pkgName,
              <<"forced to version", pkgName, forcedVersion>>,
              [NoDetails EXCEPT !.overrideRisk =
                 <<[package |-> pkgName, forcedVersion |-> forcedVersion,
                    originalRequirements |-> <<>>, potentialBreaking |-> TRUE]>>],
              <<KeyString(pkg)>>, <<"review override", pkgName>>)

\* part_000:445-463
OverrideIssue(pkg, forcedVersion) ==
    LET pkgName == OverridePackage(pkg)
    IN  Issue("override_risk", "info", pkgName,
              <<"forced to version", pkgName, forcedVersion>>,
              [NoDetails EXCEPT !.overrideRisk =
                 <<[package |-> pkgName, forcedVersion |-> forcedVersion,
                    originalRequirements |-> <<>>, potentialBreaking |-> TRUE]>>],
              <<KeyString(pkg)>>, <<"review override", pkgName>>)

\* part_000 detectOverrideRisks
detectOverrideRisks(overrides, r) ==
    PushAll([i \in 1..Len(overrides) |-> OverrideIssue(overrides[i].k, overrides[i].v)], r)

EngineIssue(currentNode, required) ==
    Issue("engine_mismatch", "error", "node",
          <<"node version does not satisfy", currentNode, required>>,
          [NoDetails EXCEPT !.engineMismatch =
             <<[package |-> "node", required |-> required,
                current |-> currentNode, field |-> "node"]>>],
          <<>>, <<"upgrade node to", required>>)

\* part_000 detectEngineMismatch: enginesNode is packageJson.engines?.node
\* ("" when the manifest declares none), currentNode is getCurrentNodeVersion()
detectEngineMismatch(enginesNode, currentNode, r) ==
    IF enginesNode # "" /\ ~satisfiesVersion(currentNode, enginesNode)
    THEN PushAll(<<EngineIssue(currentNode, enginesNode)>>, r)
    ELSE PushAll(<<>>, r)

----------------------------------------------------------------------------
(* The collaborators of detectConflicts.                                   *)

\* detector.ts LOCK_FILES, in the order Object.entries walks it
LOCK_FILES ==
    <<[k |-> "npm", v |-> "package-lock.json"],
      [k |-> "pnpm", v |-> "pnpm-lock.yaml"],
      [k |-> "yarn", v |-> "yarn.lock"]>>

\* packageManager.match(/^(npm|pnpm|yarn)@(.+)$/)[1], "" without a match
PackageManagerField(packageManager) ==
    CASE packageManager = "npm@10.2.0"  -> "npm"
      [] packageManager = "pnpm@8.6.0"  -> "pnpm"
      [] packageManager = "yarn@1.22.0" -> "yarn"
      [] OTHER                          -> ""

\* detector.ts detectPackageManager (.name): the packageManager field, else
\* the first lock file found, else npm
detectPackageManager(proj) ==
    LET byField == IF proj.manifest.readable
                   THEN PackageManagerField(proj.manifest.packageManager) ELSE ""
        locked  == SelectSeq(LOCK_FILES, LAMBDA e : e.v \in proj.lockFiles)
    IN  IF byField # "" THEN byField
        ELSE IF locked # <<>> THEN locked[1].k
        ELSE "npm"

\* detector.ts detectWorkspaces and getWorkspacePackages: proj.members are the
\* directories the workspace patterns match (none without a workspace
\* configuration); a member whose package.json cannot be read is skipped
getWorkspacePackages(proj) ==
    LET found == SelectSeq(proj.members, LAMBDA m : m.readable)
    IN  [i \in 1..Len(found) |->
           [name |-> found[i].name, relativePath |-> found[i].relativePath,
            dependencies |-> found[i].dependencies,
            devDependencies |-> found[i].devDependencies]]

\* detector.ts getCurrentNodeVersion: process.version.replace(/^v/, "")
getCurrentNodeVersion(processVersion) ==
    CASE processVersion = "v16.20.2"        -> "16.20.2"
      [] processVersion = "v18.0.0"         -> "18.0.0"
      [] processVersion = "v18.4.0"         -> "18.4.0"
      [] processVersion = "v20.1.0"         -> "20.1.0"
      [] processVersion = "v22.0.0-nightly" -> "22.0.0-nightly"
      [] OTHER                              -> processVersion

----------------------------------------------------------------------------
(* detectConflicts.                                                        *)

NoOutput ==
    [status |-> "none", hasIssues |-> FALSE,
     summary |-> [total |-> 0, errors |-> 0, warnings |-> 0, infos |-> 0,
                  byType |-> <<>>],
     issues |-> <<>>]

\* the issues array a pass keeps from an earlier pass (a stale module-level array)
LeakedIssues == issues

\* part_000:131  const issues: ConflictIssue[] = []
InitialIssues == <<>>

\* the "warning" filter keeping only warnings
filterBySeverityWarningOnly(all, severity) ==
    CASE severity = "error"   -> SelectSeq(all, LAMBDA i : i.severity = "error")
      [] severity = "warning" -> SelectSeq(all, LAMBDA i : i.severity = "warning")
      [] OTHER                -> all

\* part_000:161-166
filterBySeverity(all, severity) ==
    CASE severity = "error"   -> SelectSeq(all, LAMBDA i : i.severity = "error")
      [] severity = "warning" -> SelectSeq(all, LAMBDA i : i.severity # "info")
      [] OTHER                -> all

RECURSIVE CountByType(_, _)
\* part_000:169-172  byType[issue.type] = (byType[issue.type] || 0) + 1
CountByType(filtered, byType) ==
    IF filtered = <<>> THEN byType
    ELSE CountByType(Tail(filtered),
                     Put(byType, filtered[1].type,
                         (IF HasKey(byType, filtered[1].type)
                          THEN Get(byType, filtered[1].type) ELSE 0) + 1))

\* part_000:174-185
Result(filteredIssues) ==
    [status |-> "returned",
     hasIssues |-> Len(filteredIssues) > 0,
     summary |->
       [total    |-> Len(filteredIssues),
        errors   |-> Len(SelectSeq(filteredIssues, LAMBDA i : i.severity = "error")),
        warnings |-> Len(SelectSeq(filteredIssues, LAMBDA i : i.severity = "warning")),
        infos    |-> Len(SelectSeq(filteredIssues, LAMBDA i : i.severity = "info")),
        byType   |-> CountByType(filteredIssues, <<>>)],
     issues |-> filteredIssues]

\* part_000:119-121  throw new Error(...)
Thrown == [NoOutput EXCEPT !.status = "threw"]

\* part_000:116-121: the root package.json is read
ReadManifest ==
    /\ pc = "readManifest"
    /\ IF project.manifest.readable
       THEN /\ pc' = "detectPm"
            /\ output' = output
       ELSE /\ pc' = "done"
            /\ output' = Thrown
    /\ UNCHANGED <<project, input, run, pmName, workspacePackages, issues,
                   firstOutput, rng>>

\* part_000:124-131
DetectEnvironment ==
    /\ pc = "detectPm"
    /\ pmName' = detectPackageManager(project)
    /\ workspacePackages' = getWorkspacePackages(project)
    /\ issues' = InitialIssues
    /\ pc' = "peer"
    /\ UNCHANGED <<project, input, run, output, firstOutput, rng>>

\* one check of part_000:134-158: `found` is what the check returned
Check(here, next, enabled, found) ==
    /\ pc = here
    /\ pc' = next
    /\ IF enabled
       THEN /\ issues' = issues \o found.issues
            /\ rng' = found.rng
       ELSE UNCHANGED <<issues, rng>>
    /\ UNCHANGED <<project, input, run, pmName, workspacePackages, output, firstOutput>>

\* part_000:134-137
CheckPeerDependency ==
    Check("peer", "multi", "peer_dependency" \in input.checkTypes,
          detectPeerDependencyIssues(pmName, project.peerLs, rng))

\* part_000:139-142
CheckMultipleVersions ==
    Check("multi", "workspace", "multiple_versions" \in input.checkTypes,
          detectMultipleVersions(pmName, project.allLs, rng))

\* part_000:144-147
CheckWorkspaceMismatch ==
    Check("workspace", "override",
          "workspace_mismatch" \in input.checkTypes /\ Len(workspacePackages) > 0,
          detectWorkspaceMismatch(workspacePackages, rng))

\* part_000:149-153
CheckOverrideRisk ==
    Check("override", "engine", "override_risk" \in input.checkTypes,
          detectOverrideRisks(getOverrides(project.manifest, pmName), rng))

\* part_000:155-158
CheckEngineMismatch ==
    Check("engine", "filter", "engine_mismatch" \in input.checkTypes,
          detectEngineMismatch(project.manifest.enginesNode,
                               getCurrentNodeVersion(project.processVersion), rng))

\* part_000:160-185
Return ==
    /\ pc = "filter"
    /\ output' = Result(filterBySeverity(issues, input.severity))
    /\ pc' = "done"
    /\ UNCHANGED <<project, input, run, pmName, workspacePackages, issues,
                   firstOutput, rng>>

\* the same request is made once more on the unchanged project
Again ==
    /\ pc = "done"
    /\ run = 1
    /\ run' = 2
    /\ firstOutput' = output
    /\ output' = NoOutput
    /\ pc' = "readManifest"
    /\ UNCHANGED <<project, input, pmName, workspacePackages, issues, rng>>

Next ==
    \/ ReadManifest
    \/ DetectEnvironment
    \/ CheckPeerDependency
    \/ CheckMultipleVersions
    \/ CheckWorkspaceMismatch
    \/ CheckOverrideRisk
    \/ CheckEngineMismatch
    \/ Return
    \/ Again

----------------------------------------------------------------------------
(* Projects and requests.                                                  *)

\* the check types detectConflicts implements (it ignores the other three)
ImplementedTypes ==
    {"peer_dependency", "multiple_versions", "workspace_mismatch", "override_risk",
     "engine_mismatch"}

Severities == {"all", "error", "warning"}

Prefixes(s, n) == {SubSeq(s, 1, k) : k \in 0..(IF n < Len(s) THEN n ELSE Len(s))}

\* ---- what execCommand returns for a listing command
EmptyStdout == [kind |-> "empty", problems |-> <<>>, dependencies |-> <<>>]
Garbage     == [kind |-> "garbage", problems |-> <<>>, dependencies |-> <<>>]
Json(problems, dependencies) ==
    [kind |-> "json", problems |-> problems, dependencies |-> dependencies]

NoExec == [stdout |-> EmptyStdout, stderr |-> <<>>]

ProblemLines ==
    <<"peer dep missing: x@^1.0.0, required by a@1.0.0",
      "peer dep missing: x@^1.0.0, required by b@2.0.0",
      "extraneous: z@1.0.0",
      "peer dep missing: y@2.x, required by a@1.0.0">>

StderrLines ==
    <<"npm WARN peer dep missing: x@^1.0.0",
      "npm WARN peerDependencies of b@2.0.0 deprecated",
      "npm ERR! code ELSPROBLEMS",
      "npm WARN peer dep missing: x@^1.0.0">>

\* the listing parses and nothing is on stderr, or warnings were printed and
\* stdout is not JSON
PeerListings ==
    {[stdout |-> Json(p, <<>>), stderr |-> <<>>] : p \in Prefixes(ProblemLines, MaxProblems)}
    \cup {[stdout |-> Garbage, stderr |-> e] :
            e \in Prefixes(StderrLines, MaxStderrLines) \ {<<>>}}

\* ---- installed trees (the "dependencies" object of npm ls --all)
Names == {"x", "y"}

TreeVersions == {"", "1.0.0", "2.0.0", "3.0.0"}

Node(name, version, dependencies) ==
    [k |-> name, v |-> [version |-> version, dependencies |-> dependencies]]

Kids ==
    Objects(Names, [version : TreeVersions, dependencies : {<<>>}], MaxKids)

Forests ==
    Objects(Names, [version : TreeVersions, dependencies : Kids], MaxTop)

\* x twice; x three times, first met below y
SomeTrees ==
    {<<Node("x", "1.0.0", <<>>), Node("y", "1.0.0", <<Node("x", "2.0.0", <<>>)>>)>>,
     <<Node("y", "1.0.0", <<Node("x", "3.0.0", <<>>)>>),
       Node("x", "1.0.0", <<Node("x", "2.0.0", <<>>)>>)>>}

TreeListings == {[stdout |-> Json(<<>>, t), stderr |-> <<>>] : t \in SomeTrees}
                \cup {[stdout |-> Garbage, stderr |-> <<>>]}

AllTreeListings == {[stdout |-> Json(<<>>, t), stderr |-> <<>>] : t \in Forests}
                   \cup {[stdout |-> Garbage, stderr |-> <<>>]}

\* ---- workspace members
Requirements == {"^4.0.0", "^3.0.0", ">=4.0.0 <5.0.0"}

MemberNames == <<"A", "B", "C", "D">>

DepObjects == Objects(Names, Requirements, 1)

\* the directory of the member named name, as the workspace pattern matched it
MemberDir(name) == "packages/" \o name

\* member lists: the i-th member is named MemberNames[i]
MemberLists ==
    UNION {{[i \in 1..n |->
               [readable |-> TRUE, name |-> MemberNames[i],
                relativePath |-> MemberDir(MemberNames[i]),
                dependencies |-> f[i].d, devDependencies |-> f[i].dev]] :
            f \in [1..n -> [d : DepObjects, dev : DepObjects]]} : n \in 0..MaxMembers}

Dep(name, requirement) == [k |-> name, v |-> requirement]

Member(readable, name, dependencies, devDependencies) ==
    [readable |-> readable, name |-> name, relativePath |-> MemberDir(name),
     dependencies |-> dependencies, devDependencies |-> devDependencies]

SomeMembers ==
    <<Member(TRUE, "A", <<Dep("x", "^4.0.0")>>, <<Dep("y", "^3.0.0")>>),
      Member(TRUE, "B", <<Dep("x", "^3.0.0")>>, <<>>),
      Member(FALSE, "C", <<Dep("x", ">=4.0.0 <5.0.0")>>, <<>>),
      Member(TRUE, "D", <<>>, <<Dep("x", "^4.0.0")>>)>>

\* ---- the root manifest
Leaf(str) == [leaf |-> TRUE, str |-> str, obj |-> <<>>]
Nested(obj) == [leaf |-> FALSE, str |-> "", obj |-> obj]

ForcedVersions == {"1.0.0", "2.0.0"}

LeafEntries == {[k |-> <<"x">>, v |-> Leaf(fv)] : fv \in ForcedVersions}

NestedEntries ==
    {[k |-> <<a>>, v |-> Nested(o)] :
       a \in {"a", "b"}, o \in {<<>>} \cup {<<e>> : e \in LeafEntries}}

OverrideObjects ==
    {s \in SeqUpTo(LeafEntries \cup NestedEntries, MaxOverrides) : IsObject(s)}

FlatOverrides ==
    {<<>>} \cup {<<[k |-> key, v |-> "3.0.0"]>> : key \in {<<"a", "x">>, <<"x">>, <<"x", "">>}}

Manifest(readable, packageManager, overrides, pnpmOverrides, resolutions, enginesNode) ==
    [readable |-> readable, packageManager |-> packageManager, overrides |-> overrides,
     pnpmOverrides |-> pnpmOverrides, resolutions |-> resolutions,
     enginesNode |-> enginesNode]

NoOverrides == [overrides |-> <<>>, pnpmOverrides |-> <<>>, resolutions |-> <<>>]

SomeOverrides ==
    {NoOverrides,
     [overrides |-> <<[k |-> <<"a">>, v |-> Nested(<<[k |-> <<"x">>, v |-> Leaf("1.0.0")]>>)],
                      [k |-> <<"b">>, v |-> Nested(<<[k |-> <<"x">>, v |-> Leaf("2.0.0")]>>)]>>,
      pnpmOverrides |-> <<[k |-> <<"a", "x">>, v |-> "3.0.0"]>>,
      resolutions |-> <<[k |-> <<"x">>, v |-> "3.0.0"]>>]}

\* the override fields getOverrides reads for pm
AllOverrides(pm) ==
    {[overrides |-> o, pnpmOverrides |-> p, resolutions |-> y] :
       o \in IF pm = "yarn" THEN {<<>>} ELSE OverrideObjects,
       p \in IF pm = "pnpm" THEN FlatOverrides ELSE {<<>>},
       y \in IF pm = "yarn" THEN FlatOverrides ELSE {<<>>}}

EngineRanges ==
    {">=16", ">=18", ">=20", ">=18.4.0", ">=20.1.0", "^18.0.0", "^20.1.0", "<18",
     "18.x", "20.1.0", "not a range"}

ProcessVersions == {"v16.20.2", "v18.0.0", "v18.4.0", "v20.1.0", "v22.0.0-nightly"}

SomeEngines ==
    {[range |-> "", version |-> "v18.0.0"]}
    \cup [range : {">=18", "^20.1.0", "not a range"}, version : {"v16.20.2", "v20.1.0"}]

\* ---- what decides the package manager: the packageManager field, lock files
PmEvidence ==
    {[packageManager |-> "", lockFiles |-> {}],
     [packageManager |-> "pnpm@8.6.0", lockFiles |-> {"package-lock.json"}],
     [packageManager |-> "bun@1.0.0", lockFiles |-> {"yarn.lock"}]}

Project(manifest, lockFiles, peerLs, allLs, members, processVersion) ==
    [manifest |-> manifest, lockFiles |-> lockFiles, peerLs |-> peerLs,
     allLs |-> allLs, members |-> members, processVersion |-> processVersion]

----------------------------------------------------------------------------
(* Specifications.                                                         *)

Fresh ==
    /\ run = 1
    /\ issues = <<>>
    /\ output = NoOutput
    /\ firstOutput = NoOutput

\* A project whose root manifest cannot be read, or any combination of a
\* request and the facts its checks read; a fact that no requested check
\* reads is left at its default.
Init ==
    /\ Fresh
    /\ pc = "readManifest"
    /\ pmName = ""
    /\ workspacePackages = <<>>
    /\ rng = 0
    /\ \/ /\ input = [checkTypes |-> ImplementedTypes, severity |-> "all"]
          /\ project = Project(Manifest(FALSE, "", <<>>, <<>>, <<>>, ""), {},
                               NoExec, NoExec, <<>>, "v18.0.0")
       \/ \E ct \in SUBSET ImplementedTypes, sev \in Severities, ev \in PmEvidence :
          \E peer \in IF "peer_dependency" \in ct THEN PeerListings ELSE {NoExec},
             tree \in IF "multiple_versions" \in ct THEN TreeListings ELSE {NoExec},
             mem \in IF "workspace_mismatch" \in ct
                     THEN Prefixes(SomeMembers, MaxMembers + 1) ELSE {<<>>},
             ov \in IF "override_risk" \in ct THEN SomeOverrides ELSE {NoOverrides},
             eng \in IF "engine_mismatch" \in ct THEN SomeEngines
                     ELSE {[range |-> "", version |-> "v18.0.0"]} :
            /\ input = [checkTypes |-> ct, severity |-> sev]
            /\ project = Project(Manifest(TRUE, ev.packageManager, ov.overrides,
                                          ov.pnpmOverrides, ov.resolutions, eng.range),
                                 ev.lockFiles, peer, tree, mem, eng.version)

Spec == Init /\ [][Next]_vars

----------------------------------------------------------------------------
(* The checks on their own: each specification starts detectConflicts at   *)
(* one check, with the inputs of that check drawn from a larger set.       *)

DefaultManifest == Manifest(TRUE, "", <<>>, <<>>, <<>>, "")

DefaultProject == Project(DefaultManifest, {}, NoExec, NoExec, <<>>, "v18.0.0")

At(position, type) ==
    /\ Fresh
    /\ rng = 0
    /\ pc = position
    /\ input = [checkTypes |-> {type}, severity |-> "all"]

InitMultipleVersions ==
    /\ At("multi", "multiple_versions")
    /\ pmName \in {"npm", "pnpm", "yarn"}
    /\ workspacePackages = <<>>
    /\ \E tree \in AllTreeListings : project = [DefaultProject EXCEPT !.allLs = tree]

SpecMultipleVersions == InitMultipleVersions /\ [][CheckMultipleVersions]_vars

InitWorkspace ==
    /\ At("workspace", "workspace_mismatch")
    /\ pmName = "npm"
    /\ \E mem \in MemberLists :
         /\ project = [DefaultProject EXCEPT !.members = mem]
         /\ workspacePackages = getWorkspacePackages(project)

SpecWorkspace == InitWorkspace /\ [][CheckWorkspaceMismatch]_vars

InitOverride ==
    /\ At("override", "override_risk")
    /\ pmName \in {"npm", "pnpm", "yarn"}
    /\ workspacePackages = <<>>
    /\ \E ov \in AllOverrides(pmName) :
         project = [DefaultProject EXCEPT
                      !.manifest = Manifest(TRUE, "", ov.overrides, ov.pnpmOverrides,
                                            ov.resolutions, "")]

SpecOverride == InitOverride /\ [][CheckOverrideRisk]_vars

InitEngine ==
    /\ At("engine", "engine_mismatch")
    /\ pmName = "npm"
    /\ workspacePackages = <<>>
    /\ \E range \in EngineRanges \cup {""}, version \in ProcessVersions :
         project = [DefaultProject EXCEPT
                      !.manifest = Manifest(TRUE, "", <<>>, <<>>, <<>>, range),
                      !.processVersion = version]

SpecEngine == InitEngine /\ [][CheckEngineMismatch]_vars

----------------------------------------------------------------------------
(* Properties.                                                             *)

OfType(all, type) == SelectSeq(all, LAMBDA i : i.type = type)

Records(all, type, package) ==
    SelectSeq(all, LAMBDA i : i.type = type /\ i.package = package)

\* C1: within one pass no two conflict records share type and package.
C1_OneRecordPerTypeAndPackage ==
    \A i, j \in 1..Len(issues) :
      (issues[i].type = issues[j].type /\ issues[i].package = issues[j].package)
         => i = j

RECURSIVE PreOrder(_)
\* the (name, version) pairs of an installed tree, parents before children
PreOrder(dependencies) ==
    IF dependencies = <<>> THEN <<>>
    ELSE <<[name |-> dependencies[1].k, version |-> dependencies[1].v.version]>>
         \o PreOrder(dependencies[1].v.dependencies)
         \o PreOrder(Tail(dependencies))

\* the versions of `name` in the order the walk first meets them
Discovered(walk, name) ==
    LET mine == SelectSeq(walk, LAMBDA n : n.name = name /\ n.version # "")
        first(i) == \A j \in 1..(i - 1) : mine[j].version # mine[i].version
        idx == {i \in 1..Len(mine) : first(i)}
        pos(k) == CHOOSE i \in idx : Cardinality({j \in idx : j < i}) = k - 1
    IN  [k \in 1..Cardinality(idx) |-> mine[pos(k)].version]

AfterMultipleVersions == pc = "workspace" /\ "multiple_versions" \in input.checkTypes

MultipleVersionsAsClaimed ==
    LET walk == PreOrder(project.allLs.stdout.dependencies)
    IN  \A name \in {walk[i].name : i \in 1..Len(walk)} :
          LET versions == Discovered(walk, name)
              recs == Records(issues, "multiple_versions", name)
          IN  IF Len(versions) > 1
              THEN /\ Len(recs) = 1
                   /\ recs[1].severity = (IF Len(versions) > 2 THEN "warning" ELSE "info")
                   /\ SubSeq(recs[1].message, 4, Len(recs[1].message)) = versions
              ELSE recs = <<>>

\* C2: after the multiple_versions check, every package of the installed tree
\* with n > 1 distinct versions has exactly one record (warning iff n > 2, the
\* versions listed in discovery order) and every other package has none,
\* whichever package manager produced the tree.
C2_MultipleVersionsForEveryPackageManager ==
    AfterMultipleVersions => MultipleVersionsAsClaimed

AfterWorkspaceMismatch ==
    /\ pc = "override"
    /\ "workspace_mismatch" \in input.checkTypes
    /\ Len(workspacePackages) > 0

\* the requirement strings member ws declares for package name, in either of
\* its dependency objects
Declares(ws, name) ==
    {e.v : e \in {d \in Range(ws.dependencies) \cup Range(ws.devDependencies) :
                    d.k = name}}

DeclaredPackages ==
    UNION {{e.k : e \in Range(ws.dependencies) \cup Range(ws.devDependencies)} :
             ws \in Range(workspacePackages)}

\* the names of the members that declare requirement for name, in member order
Declaring(name, requirement) ==
    LET ms == SelectSeq(workspacePackages, LAMBDA ws : requirement \in Declares(ws, name))
    IN  [i \in 1..Len(ms) |-> ms[i].name]

\* C3: after detectWorkspaceMismatch, a package has exactly one
\* workspace_mismatch record iff the members declare more than one distinct
\* requirement string for it, and the record lists each requirement string
\* with all the members that declare it.
C3_MismatchIffDistinctRequirements ==
    AfterWorkspaceMismatch =>
      \A name \in DeclaredPackages :
        LET strings == UNION {Declares(ws, name) : ws \in Range(workspacePackages)}
            recs    == Records(issues, "workspace_mismatch", name)
        IN  IF Cardinality(strings) > 1
            THEN /\ Len(recs) = 1
                 /\ \A requirement \in strings :
                      \E g \in Range(recs[1].details.workspaceMismatch) :
                        /\ g.localVersion = requirement
                        /\ g.workspace = Join(Declaring(name, requirement), ", ")
            ELSE recs = <<>>

AfterEngineMismatch == pc = "filter" /\ "engine_mismatch" \in input.checkTypes

EngineRecords == OfType(issues, "engine_mismatch")

RuntimeVersion == SemVer(getCurrentNodeVersion(project.processVersion))

DeclaredRange == RangeShape(project.manifest.enginesNode)

\* the declared range is ">=N": a major number and nothing else
MajorOnlyAtLeast == DeclaredRange.op = ">=" /\ DeclaredRange.minor < 0

\* C4: with the declared range ">=N", the engine check emits exactly one
\* record, of severity error, when the runtime major is below N, and none
\* when the runtime major is at least N.
C4_AtLeastMajor ==
    (AfterEngineMismatch /\ MajorOnlyAtLeast) =>
      IF RuntimeVersion.major < DeclaredRange.major
      THEN Len(EngineRecords) = 1 /\ EngineRecords[1].severity = "error"
      ELSE EngineRecords = <<>>

Ordinal(v) == v.major * 10000 + v.minor * 100 + v.patch

\* the versions a range string denotes, read off the range syntax: a
\* release version inside the interval the string writes
Denotes(range, v) ==
    LET r  == RangeShape(range)
        lo == r.major * 10000 + Num(r.minor) * 100 + Num(r.patch)
        n  == Ordinal(v)
    IN  /\ v.pre = 0
        /\ CASE r.op = ">=" -> n >= lo
             [] r.op = "^"  -> n >= lo /\ n < (r.major + 1) * 10000
             [] r.op = "x"  -> n >= lo /\ n < (r.major + 1) * 10000
             [] r.op = "<"  -> n < r.major * 10000
             [] r.op = "="  -> n = lo
             [] r.op = "*"  -> TRUE
             [] OTHER       -> FALSE

C6_NeverRaises == output.status # "threw"

\* the records with the generated id blanked
WithoutIds(all) == [i \in 1..Len(all) |-> [all[i] EXCEPT !.id = 0]]

SecondPassDone == run = 2 /\ pc = "done"

\* C7: the repeated pass on the unchanged project ends as the first one did,
\* with the same conflict records (hence the same set of them) when the
\* generated ids are left out of the comparison.
C7_RepeatedPassSameRecords ==
    SecondPassDone =>
      /\ output.status = firstOutput.status
      /\ WithoutIds(output.issues) = WithoutIds(firstOutput.issues)

\* both passes returned records, under different ids
C7_Witness ==
    /\ SecondPassDone
    /\ Len(output.issues) >= 2
    /\ output.issues # firstOutput.issues

AfterOverrideRisk == pc = "engine" /\ "override_risk" \in input.checkTypes

\* the override directives handed to detectOverrideRisks
Directives == getOverrides(project.manifest, pmName)

\* C8: after detectOverrideRisks every override directive has its info record
\* of type override_risk naming the forced version, and every override_risk
\* record is of severity info with no original requirements listed.
C8_OverrideRisksAreInfo ==
    /\ AfterOverrideRisk =>
         /\ Len(OfType(issues, "override_risk")) = Len(Directives)
         /\ \A d \in Range(Directives) :
              \E i \in Range(issues) :
                /\ i.type = "override_risk"
                /\ i.severity = "info"
                /\ i.affectedPaths = <<KeyString(d.k)>>
                /\ i.details.overrideRisk[1].forcedVersion = d.v
                /\ i.message[3] = d.v
    /\ \A i \in Range(issues) \cup Range(output.issues) :
         i.type = "override_risk" =>
           /\ i.severity = "info"
           /\ i.details.overrideRisk[1].originalRequirements = <<>>

\* two directives, one of them nested, have their records
C8_Witness ==
    /\ AfterOverrideRisk
    /\ Len(Directives) >= 2
    /\ \E d \in Range(Directives) : Len(d.k) = 2
    /\ Len(OfType(issues, "override_risk")) = Len(Directives)

Kept(severity) ==
    CASE severity = "error"   -> {"error"}
      [] severity = "warning" -> {"error", "warning"}
      [] OTHER                -> {"error", "warning", "info"}

Returned == pc = "done" /\ output.status = "returned"

\* C10: a returned pass holds exactly the collected issues whose severity the
\* filter keeps, in their order; total is their number and the sum of errors,
\* warnings and infos; the byType counts add up to total; hasIssues iff total > 0.
C10_SeverityFilterAndSummary ==
    Returned =>
      /\ output.issues
           = SelectSeq(issues, LAMBDA i : i.severity \in Kept(input.severity))
      /\ output.summary.total = Len(output.issues)
      /\ output.summary.total
           = output.summary.errors + output.summary.warnings + output.summary.infos
      /\ SumSeq([k \in 1..Len(output.summary.byType) |-> output.summary.byType[k].v])
           = output.summary.total
      /\ output.hasIssues <=> (output.summary.total > 0)

\* the "warning" filter kept an error and a warning and dropped an info
C10_Witness ==
    /\ Returned
    /\ input.severity = "warning"
    /\ output.summary.errors > 0
    /\ output.summary.warnings > 0
    /\ \E i \in Range(issues) : i.severity = "info"

----------------------------------------------------------------------------
(* The version utilities on their own: input is the call (the function and *)
(* its arguments), output what the call did.                               *)

\* what a call does: it returns a value, or it throws
Ok(value) == [threw |-> FALSE, value |-> value]

Raise == [threw |-> TRUE, value |-> FALSE]

\* new Range(range): a TypeError for a string that is no range
NewRange(range) == IF ValidRange(range) THEN Ok(Comparators(range)) ELSE Raise

\* new SemVer(version): a TypeError for a string that is no version
NewSemVer(version) == IF SemVer(version).valid THEN Ok(SemVer(version)) ELSE Raise

\* Range.test accepting every string that is no version
RangeTestAcceptsMalformed(set, version) ==
    LET v == NewSemVer(version)
    IN  IF v.threw THEN Ok(TRUE) ELSE Ok(TestSet(set, v.value))

\* Range.test: try { version = new SemVer(version) } catch { return false }
RangeTest(set, version) ==
    LET v == NewSemVer(version)
    IN  IF v.threw THEN Ok(FALSE) ELSE Ok(TestSet(set, v.value))

\* semver.satisfies: try { range = new Range(range) } catch { return false }
SemverSatisfies(version, range) ==
    LET r == NewRange(range)
    IN  IF r.threw THEN Ok(FALSE) ELSE RangeTest(r.value, version)

\* try { return call } catch { return fallback }
TryCatch(call, fallback) == IF call.threw THEN Ok(fallback) ELSE call

\* utils/index.ts:98-107, the call and its try/catch
satisfiesVersionCall(version, range) == TryCatch(SemverSatisfies(version, range), FALSE)

\* the strings of the calls: versions and ranges, well-formed and malformed
WellFormedVersions == {"1.0.0", "1.2.0", "1.3.0", "v1.3.0", "1.4.0-beta", "2.0.0"}

MalformedVersions == {"", "1.2", "1.2.3.4", "latest", "not-a-version"}

WellFormedRanges == {"^1.2.0", "^2.0.0", ">=1.3.0", "<2", "1.x", "1.3.0", "*", ""}

MalformedRanges == {"^^1.0.0", "workspace:*", "not a range"}

VersionStrings == WellFormedVersions \cup MalformedVersions

RangeStrings == WellFormedRanges \cup MalformedRanges

Calling(call) ==
    /\ Fresh
    /\ rng = 0
    /\ pc = "call"
    /\ pmName = "npm"
    /\ workspacePackages = <<>>
    /\ project = DefaultProject
    /\ input = call

\* one call is made and its outcome kept
Call(fn, outcome) ==
    /\ pc = "call"
    /\ input.fn = fn
    /\ output' = outcome
    /\ pc' = "done"
    /\ UNCHANGED <<project, input, run, pmName, workspacePackages, issues,
                   firstOutput, rng>>

CallSatisfiesVersion ==
    Call("satisfiesVersion", satisfiesVersionCall(input.version, input.range))

InitSatisfiesVersion ==
    \E version \in VersionStrings, range \in RangeStrings :
      Calling([fn |-> "satisfiesVersion", version |-> version, range |-> range])

SpecSatisfiesVersion == InitSatisfiesVersion /\ [][CallSatisfiesVersion]_vars

Called(fn) == pc = "done" /\ input.fn = fn

\* C11: satisfiesVersion never throws; it returns false for every malformed
\* range and every malformed version; and it returns true only for a
\* well-formed version that lies inside a well-formed range.
C11_SatisfiesFailsClosed ==
    Called("satisfiesVersion") =>
      /\ ~output.threw
      /\ (input.range \in MalformedRanges \/ input.version \in MalformedVersions)
           => output.value = FALSE
      /\ output.value = TRUE =>
           /\ input.version \in WellFormedVersions
           /\ input.range \in WellFormedRanges
           /\ Denotes(input.range, SemVer(input.version))

\* a malformed range was answered with false
C11_Witness ==
    /\ Called("satisfiesVersion")
    /\ input.range = "workspace:*"
    /\ input.version = "1.3.0"
    /\ output = Ok(FALSE)

\* ---- getMaxSatisfying

\* JavaScript null
Null == "null"

RECURSIVE MaxSatisfyingLoopLast(_, _, _)
\* the loop keeping the last version that passes, whatever its precedence
MaxSatisfyingLoopLast(versions, set, max) ==
    IF versions = <<>> THEN max
    ELSE MaxSatisfyingLoopLast(Tail(versions), set,
                               IF RangeTest(set, versions[1]).value
                               THEN versions[1] ELSE max)

RECURSIVE MaxSatisfyingLoop(_, _, _)
\* semver.maxSatisfying, versions.forEach: v becomes max when it passes
\* rangeObj.test(v) and max is not set or maxSV.compare(v) === -1
MaxSatisfyingLoop(versions, set, max) ==
    IF versions = <<>> THEN max
    ELSE LET v    == versions[1]
             take == /\ RangeTest(set, v).value
                     /\ \/ max = Null
                        \/ Compare(SemVer(max), SemVer(v)) = -1
         IN  MaxSatisfyingLoop(Tail(versions), set, IF take THEN v ELSE max)

\* semver.maxSatisfying: try { rangeObj = new Range(range) } catch { return null }
SemverMaxSatisfying(versions, range) ==
    LET r == NewRange(range)
    IN  IF r.threw THEN Ok(Null) ELSE Ok(MaxSatisfyingLoop(versions, r.value, Null))

\* utils/index.ts:109-114 (no try/catch of its own)
getMaxSatisfying(versions, range) == SemverMaxSatisfying(versions, range)

\* arrays of distinct version strings
VersionArrays ==
    {a \in SeqUpTo(WellFormedVersions \cup {"latest"}, MaxVersions) :
       \A i, j \in 1..Len(a) : a[i] = a[j] => i = j}

MaxSatisfyingRanges == {"^1.2.0", "^2.0.0", ">=1.3.0", "<2", "*", "not a range"}

CallGetMaxSatisfying ==
    Call("getMaxSatisfying", getMaxSatisfying(input.versions, input.range))

InitGetMaxSatisfying ==
    \E versions \in VersionArrays, range \in MaxSatisfyingRanges :
      Calling([fn |-> "getMaxSatisfying", versions |-> versions, range |-> range])

SpecGetMaxSatisfying == InitGetMaxSatisfying /\ [][CallGetMaxSatisfying]_vars

\* the versions of the array that lie inside the range
SatisfyingVersions ==
    {v \in Range(input.versions) :
       /\ v \in WellFormedVersions
       /\ input.range \in WellFormedRanges
       /\ Denotes(input.range, SemVer(v))}

\* C12: getMaxSatisfying returns null when no version of the array satisfies
\* the range; otherwise it returns a version of the array that satisfies the
\* range and that no satisfying version of the array exceeds in
\* major.minor.patch precedence.
C12_MaxSatisfyingIsGreatest ==
    Called("getMaxSatisfying") =>
      /\ ~output.threw
      /\ IF SatisfyingVersions = {}
         THEN output.value = Null
         ELSE /\ output.value \in SatisfyingVersions
              /\ \A w \in SatisfyingVersions :
                   Ordinal(SemVer(w)) <= Ordinal(SemVer(output.value))

\* {1.2.0, 1.3.0, 2.0.0} with ^1.2.0 gave 1.3.0
C12_Witness ==
    /\ Called("getMaxSatisfying")
    /\ input.versions = <<"1.2.0", "1.3.0", "2.0.0">>
    /\ input.range = "^1.2.0"
    /\ output = Ok("1.3.0")

\* {1.0.0} with ^2.0.0 gave none
C12_WitnessNone ==
    /\ Called("getMaxSatisfying")
    /\ input.versions = <<"1.0.0">>
    /\ input.range = "^2.0.0"
    /\ output = Ok(Null)

\* ---- isMajorUpgrade

\* JavaScript undefined
Undefined == "undefined"

\* str.match(/\d+/): the number the first run of digits writes (parseInt of
\* it), or -1 for no match
MatchDigits(str) ==
    CASE str \in {"1.0.0", "1.3.0", "1.9.0", "v1.3.0", "^1.2.0", "1.x"} -> 1
      [] str \in {"2.0.0", "^2.0.0"}                                    -> 2
      [] str \in {"16.20.2", ">=16"}                                    -> 16
      [] str = "18.0.0"                                                 -> 18
      [] str = "20.1.0"                                                 -> 20
      [] OTHER                                                          -> -1

\* the comparison letting an equal major through
isMajorUpgradeOrSame(from, to) ==
    IF from = Undefined \/ from = "" THEN FALSE
    ELSE IF MatchDigits(from) >= 0 /\ MatchDigits(to) >= 0
         THEN MatchDigits(to) >= MatchDigits(from)
         ELSE FALSE

\* apply-fix.ts:1538-1546
isMajorUpgrade(from, to) ==
    IF from = Undefined \/ from = "" THEN FALSE
    ELSE IF MatchDigits(from) >= 0 /\ MatchDigits(to) >= 0
         THEN MatchDigits(to) > MatchDigits(from)
         ELSE FALSE

FromStrings ==
    {Undefined, "", "latest", "*", "1.0.0", "1.9.0", "2.0.0", "18.0.0", "^1.2.0",
     "^2.0.0", ">=16", "1.x"}

ToStrings == {"1.0.0", "1.3.0", "v1.3.0", "2.0.0", "16.20.2", "18.0.0", "20.1.0", "latest"}

CallIsMajorUpgrade ==
    Call("isMajorUpgrade", Ok(isMajorUpgrade(input.from, input.to)))

InitIsMajorUpgrade ==
    \E from \in FromStrings, to \in ToStrings :
      Calling([fn |-> "isMajorUpgrade", from |-> from, to |-> to])

SpecIsMajorUpgrade == InitIsMajorUpgrade /\ [][CallIsMajorUpgrade]_vars

\* the leading numeric component of a version or requirement string: the
\* major the string writes, -1 when it writes none
LeadingComponent(str) ==
    IF SemVer(str).valid THEN SemVer(str).major
    ELSE IF str # "" /\ ValidRange(str) /\ RangeShape(str).op # "*"
         THEN RangeShape(str).major
         ELSE -1

\* C13: isMajorUpgrade(from, to) is true exactly when from is present and the
\* leading numeric component of to is greater than that of from; it is false
\* when from is absent.
C13_MajorUpgradeComparesLeadingNumbers ==
    Called("isMajorUpgrade") =>
      /\ output.value <=>
           /\ input.from # Undefined
           /\ LeadingComponent(input.from) >= 0
           /\ LeadingComponent(input.to) > LeadingComponent(input.from)
      /\ input.from = Undefined => output.value = FALSE

\* ("1.9.0", "2.0.0") is a major upgrade
C13_Witness ==
    /\ Called("isMajorUpgrade")
    /\ input.from = "1.9.0"
    /\ input.to = "2.0.0"
    /\ output = Ok(TRUE)

----------------------------------------------------------------------------
(* suggest_solutions.  A project here is the root manifest with its        *)
(* dependencies, the workspace members, the registry document of the       *)
(* target package and the numbers Math.random is going to draw; input is   *)
(* the SuggestSolutionsInput.  title is the template and the values        *)
(* interpolated into it; the descriptive lists of a Solution (description, *)
(* risk factors, mitigations, reasons, testingRequired) are left out.      *)

\* a string that is neither undefined nor empty
Truthy(str) == str # Undefined /\ str # ""

\* a || b on strings
OrElse(a, b) == IF Truthy(a) THEN a ELSE b

\* obj?.[key]
Lookup(obj, key) == IF HasKey(obj, key) THEN Get(obj, key) ELSE Undefined

\* Math.random().toString(36) for the draws of the model: 0 writes "0"
Base36 ==
    <<"0.4fzyo82mvyr", "0.9c1x7hq2kdp", "0.k3j8s0a1b2c", "0.zz81mxq0p4n",
      "0.1b5t6y7u8i9", "0.r2d2c3p0aa4">>

\* str.substring(2, 10)
Substring2To10(str) ==
    CASE str = "0"              -> ""
      [] str = "0.4fzyo82mvyr"  -> "4fzyo82m"
      [] str = "0.9c1x7hq2kdp"  -> "9c1x7hq2"
      [] str = "0.k3j8s0a1b2c"  -> "k3j8s0a1"
      [] str = "0.zz81mxq0p4n"  -> "zz81mxq0"
      [] str = "0.1b5t6y7u8i9"  -> "1b5t6y7u"
      [] str = "0.r2d2c3p0aa4"  -> "r2d2c3p0"
      [] OTHER                  -> str

\* utils/index.ts:139-141 generateId on the string of the number drawn
GeneratedId(random) == Substring2To10(random)

\* apply-fix.ts:1548-1555
getOverrideField(pm) == IF pm = "yarn" THEN "resolutions" ELSE "overrides"

\* apply-fix.ts:1557-1568
getLockFileName(pm) ==
    CASE pm = "npm"  -> "package-lock.json"
      [] pm = "pnpm" -> "pnpm-lock.yaml"
      [] pm = "yarn" -> "yarn.lock"
      [] OTHER       -> "package-lock.json"

\* apply-fix.ts:1570-1572
getInstallCommand(pm) == pm \o " install"

\* apply-fix.ts:1574-1585
getDedupeCommand(pm) ==
    CASE pm = "npm"  -> "npm dedupe"
      [] pm = "pnpm" -> "pnpm dedupe"
      [] pm = "yarn" -> "yarn dedupe"
      [] OTHER       -> "npm dedupe"

\* apply-fix.ts:1587-1589
getNcuCommand(pm) == "npx npm-check-updates -u"

\* apply-fix.ts:1604-1613
riskToNumber(risk) ==
    CASE risk = "low" -> 1 [] risk = "medium" -> 2 [] risk = "high" -> 3

\* apply-fix.ts:1591-1602
findWorkspacesUsingPackage(workspaces, packageName) ==
    SelectSeq(workspaces, LAMBDA ws : Lookup(AllDeps(ws), packageName) # Undefined)

\* a SolutionStep; a field the step does not carry is Undefined
Step(action, target, to, file, field, command, manual) ==
    [action |-> action, target |-> target, to |-> to, file |-> file,
     field |-> field, command |-> command, manual |-> manual]

\* a Solution, its id not yet generated
Solution(forIssue, title, steps, level, breakingChanges, affectedPackages, score, estimatedEffort) ==
    [id |-> "", forIssue |-> forIssue, title |-> title, steps |-> steps,
     risk |-> [level |-> level],
     compatibility |-> [breakingChanges |-> breakingChanges,
                        affectedPackages |-> affectedPackages],
     recommendation |-> [score |-> score],
     estimatedEffort |-> estimatedEffort]

\* apply-fix.ts:1461-1508
generateUpgradeSteps(packageName, version, isDirectDep, isDev, pm) ==
    IF isDirectDep
    THEN LET command ==
               CASE pm = "npm"  -> "npm install " \o packageName \o "@" \o version \o " "
                                     \o (IF isDev THEN "--save-dev" ELSE "--save")
                 [] pm = "pnpm" -> "pnpm add " \o packageName \o "@" \o version \o " "
                                     \o (IF isDev THEN "-D" ELSE "")
                 [] pm = "yarn" -> "yarn add " \o packageName \o "@" \o version \o " "
                                     \o (IF isDev THEN "-D" ELSE "")
                 [] OTHER       -> "npm install " \o packageName \o "@" \o version
         IN  <<Step("upgrade", packageName, version, "package.json",
                    IF isDev THEN "devDependencies" ELSE "dependencies", command, FALSE)>>
    ELSE <<Step("override", packageName, version, "package.json",
                getOverrideField(pm), Undefined, TRUE)>>

\* apply-fix.ts:1615-1626
effortToNumber(effort) ==
    CASE effort = "trivial" -> 1 [] effort = "minor" -> 2
      [] effort = "moderate" -> 3 [] effort = "major" -> 4

\* the upgrade to latest proposed whatever the strategy
ProposeLatestAlways(isBreaking, allowMajorUpgrade, strategy) == TRUE

\* apply-fix.ts:1164
ProposeLatest(isBreaking, allowMajorUpgrade, strategy) ==
    ~isBreaking \/ allowMajorUpgrade \/ strategy = "aggressive"

\* apply-fix.ts:1165-1188
LatestSolution(packageName, latestVersion, isBreaking, isDirectDep, isDev, pm) ==
    Solution(packageName, <<"upgrade to latest", packageName>>,
             generateUpgradeSteps(packageName, latestVersion, isDirectDep, isDev, pm),
             IF isBreaking THEN "high" ELSE "low", isBreaking, <<packageName>>,
             IF isBreaking THEN 60 ELSE 90,
             IF isBreaking THEN "moderate" ELSE "minor")

\* the explicit-target candidate scored like the upgrade to latest
TargetSolutionScoredAsLatest(packageName, targetVersion, isBreaking, isDirectDep, isDev, pm) ==
    Solution(packageName, <<"upgrade to", packageName, targetVersion>>,
             generateUpgradeSteps(packageName, targetVersion, isDirectDep, isDev, pm),
             IF isBreaking THEN "medium" ELSE "low", isBreaking, <<packageName>>,
             IF isBreaking THEN 60 ELSE 90, "minor")

\* apply-fix.ts:1196-1217
TargetSolution(packageName, targetVersion, isBreaking, isDirectDep, isDev, pm) ==
    Solution(packageName, <<"upgrade to", packageName, targetVersion>>,
             generateUpgradeSteps(packageName, targetVersion, isDirectDep, isDev, pm),
             IF isBreaking THEN "medium" ELSE "low", isBreaking, <<packageName>>,
             75, "minor")

\* the override candidate scored above every other candidate
OverrideSolutionPreferred(packageName, to, pm) ==
    Solution(packageName, <<"override", getOverrideField(pm), packageName>>,
             <<Step("override", packageName, to, "package.json",
                    getOverrideField(pm), Undefined, TRUE),
               Step("regenerate_lock", "lock file", Undefined, getLockFileName(pm),
                    Undefined, getInstallCommand(pm), FALSE)>>,
             "medium", FALSE, <<packageName>>, 95, "minor")

\* apply-fix.ts:1224-1268
OverrideSolution(packageName, to, pm) ==
    Solution(packageName, <<"override", getOverrideField(pm), packageName>>,
             <<Step("override", packageName, to, "package.json",
                    getOverrideField(pm), Undefined, TRUE),
               Step("regenerate_lock", "lock file", Undefined, getLockFileName(pm),
                    Undefined, getInstallCommand(pm), FALSE)>>,
             "medium", FALSE, <<packageName>>, 65, "minor")

\* apply-fix.ts:1276-1303
UnifySolution(packageName, to, affectedWorkspaces) ==
    Solution(packageName, <<"unify", packageName>>,
             [i \in 1..Len(affectedWorkspaces) |->
                Step("upgrade", packageName, to,
                     affectedWorkspaces[i].relativePath \o "/package.json",
                     Undefined, Undefined, TRUE)],
             "low", FALSE,
             [i \in 1..Len(affectedWorkspaces) |-> affectedWorkspaces[i].name],
             85, IF Len(affectedWorkspaces) > 3 THEN "moderate" ELSE "minor")

\* apply-fix.ts:1148-1150  packageInfo?.["dist-tags"].latest: undefined
\* without a document, a TypeError for a document without dist-tags
LatestVersion(packageInfo) ==
    IF ~packageInfo.found THEN Ok(Undefined)
    ELSE IF ~packageInfo.hasDistTags THEN Raise
    ELSE Ok(packageInfo.latest)

\* apply-fix.ts:1152-1307: the candidates for a package, in the order pushed
PackageCandidates(packageName, targetVersion, packageJson, workspaces, pm, strategy, allowMajorUpgrade, latestVersion) ==
    LET currentVersion == OrElse(Lookup(packageJson.dependencies, packageName),
                                 Lookup(packageJson.devDependencies, packageName))
        isDirectDep    == currentVersion # Undefined
        isDev          == Lookup(packageJson.devDependencies, packageName) # Undefined
        toLatest       == isMajorUpgrade(currentVersion, latestVersion)
        toTarget       == isMajorUpgrade(currentVersion, targetVersion)
        affected       == findWorkspacesUsingPackage(workspaces, packageName)
    IN  (IF /\ Truthy(latestVersion)
            /\ currentVersion # latestVersion
            /\ ProposeLatest(toLatest, allowMajorUpgrade, strategy)
         THEN <<LatestSolution(packageName, latestVersion, toLatest, isDirectDep,
                               isDev, pm)>>
         ELSE <<>>)
        \o
        (IF Truthy(targetVersion) /\ targetVersion # latestVersion
         THEN <<TargetSolution(packageName, targetVersion, toTarget, isDirectDep,
                               isDev, pm)>>
         ELSE <<>>)
        \o
        (IF Truthy(latestVersion) /\ ~isDirectDep
         THEN <<OverrideSolution(packageName, OrElse(targetVersion, latestVersion), pm)>>
         ELSE <<>>)
        \o
        (IF Len(workspaces) > 0 /\ Len(affected) > 1
         THEN <<UnifySolution(packageName,
                              OrElse(targetVersion, OrElse(latestVersion, "latest")),
                              affected)>>
         ELSE <<>>)

\* solutions.push({id: generateId(), ...}) for each candidate, in order: the
\* i-th id comes from the i-th number drawn after the r drawn before
WithIds(drafts, random, r) ==
    [i \in 1..Len(drafts) |-> [drafts[i] EXCEPT !.id = GeneratedId(random[r + i])]]

\* apply-fix.ts:1136-1308
generatePackageSolutions(packageName, targetVersion, packageJson, workspaces, pm, strategy, allowMajorUpgrade, packageInfo, random, r) ==
    LET latest == LatestVersion(packageInfo)
    IN  IF latest.threw THEN Raise
        ELSE Ok(WithIds(PackageCandidates(packageName, targetVersion, packageJson,
                                          workspaces, pm, strategy, allowMajorUpgrade,
                                          latest.value),
                        random, r))

\* apply-fix.ts:1323-1352
DedupeSolution(pm) ==
    Solution("general", <<"dedupe">>,
             <<Step("dedupe", "all dependencies", Undefined, getLockFileName(pm),
                    Undefined, getDedupeCommand(pm), FALSE)>>,
             "low", FALSE, <<>>, 95, "trivial")

\* apply-fix.ts:1355-1405
RegenerateSolution(pm) ==
    Solution("general", <<"regenerate lock">>,
             <<Step("remove", "node_modules", Undefined, "node_modules", Undefined,
                    "rm -rf node_modules", FALSE),
               Step("remove", "lock file", Undefined, getLockFileName(pm), Undefined,
                    "rm -f " \o getLockFileName(pm), FALSE),
               Step("regenerate_lock", "dependencies", Undefined, "package.json",
                    Undefined, getInstallCommand(pm), FALSE)>>,
             "medium", FALSE, <<>>, 70, "minor")

\* apply-fix.ts:1409-1452
UpdateAllSolution(pm) ==
    Solution("general", <<"update all">>,
             <<Step("upgrade", "all dependencies", Undefined, "package.json", Undefined,
                    getNcuCommand(pm), TRUE),
               Step("regenerate_lock", "dependencies", Undefined, getLockFileName(pm),
                    Undefined, getInstallCommand(pm), FALSE)>>,
             "high", TRUE, <<>>, 40, "major")

\* the bulk update proposed under every strategy but "conservative"
ProposeUpdateAllUnlessConservative(strategy) == strategy # "conservative"

\* apply-fix.ts:1408
ProposeUpdateAll(strategy) == strategy = "aggressive"

\* apply-fix.ts:1313-1456
generateGeneralSolutions(pm, strategy, random, r) ==
    WithIds(<<DedupeSolution(pm), RegenerateSolution(pm)>>
            \o (IF ProposeUpdateAll(strategy) THEN <<UpdateAllSolution(pm)>> ELSE <<>>),
            random, r)

\* apply-fix.ts:1514-1520
MatrixRow(solution) ==
    [solutionId |-> solution.id, title |-> solution.title,
     risk |-> riskToNumber(solution.risk.level),
     effort |-> effortToNumber(solution.estimatedEffort),
     recommendation |-> solution.recommendation.score]

RECURSIVE InsertByScore(_, _)
\* row goes behind every row whose recommendation is not lower than its own
InsertByScore(sorted, row) ==
    IF sorted = <<>> THEN <<row>>
    ELSE IF sorted[1].recommendation >= row.recommendation
         THEN <<sorted[1]>> \o InsertByScore(Tail(sorted), row)
         ELSE <<row>> \o sorted

RECURSIVE SortByScore(_, _)
\* apply-fix.ts:1523  [...matrix].sort((a, b) => b.recommendation -
\* a.recommendation): descending, rows of equal recommendation keep their order
SortByScore(matrix, sorted) ==
    IF matrix = <<>> THEN sorted
    ELSE SortByScore(Tail(matrix), InsertByScore(sorted, matrix[1]))

\* apply-fix.ts:1513-1534  (reason: the template and the title and score
\* interpolated into it)
generateComparison(solutions) ==
    LET matrix      == [i \in 1..Len(solutions) |-> MatrixRow(solutions[i])]
        sorted      == SortByScore(matrix, <<>>)
        recommended == IF sorted # <<>> /\ Truthy(sorted[1].solutionId)
                       THEN sorted[1].solutionId ELSE Null
    IN  [matrix |-> matrix,
         recommended |-> recommended,
         reason |-> IF recommended # Null
                    THEN <<"highest score", sorted[1].title>>
                    ELSE <<"no solution">>]

\* apply-fix.ts:1117-1130
SuggestResult(targetPackage, solutions) ==
    [status |-> "returned",
     targetPackage |-> OrElse(targetPackage, Null),
     solutions |-> solutions,
     comparison |-> generateComparison(solutions),
     warnings |-> IF Len(solutions) = 0 THEN <<"no solution generated">> ELSE <<>>]

\* apply-fix.ts:1071-1077
SuggestReadManifest ==
    /\ pc = "suggest"
    /\ IF project.manifest.readable
       THEN /\ pc' = "suggestDetectPm"
            /\ output' = output
       ELSE /\ pc' = "done"
            /\ output' = Thrown
    /\ UNCHANGED <<project, input, run, pmName, workspacePackages, issues,
                   firstOutput, rng>>

\* apply-fix.ts:1079-1090
SuggestDetectEnvironment ==
    /\ pc = "suggestDetectPm"
    /\ pmName' = detectPackageManager(project)
    /\ workspacePackages' = getWorkspacePackages(project)
    /\ pc' = "generate"
    /\ UNCHANGED <<project, input, run, issues, output, firstOutput, rng>>

\* apply-fix.ts:1092-1104 and 1117-1130
SuggestForPackage ==
    /\ pc = "generate"
    /\ Truthy(input.targetPackage)
    /\ LET made == generatePackageSolutions(
                     input.targetPackage, input.targetVersion, project.manifest,
                     workspacePackages, pmName, OrElse(input.strategy, "balanced"),
                     input.allowMajorUpgrade, project.packageInfo, project.random, rng)
       IN  IF made.threw
           THEN /\ output' = Thrown
                /\ rng' = rng
           ELSE /\ output' = SuggestResult(input.targetPackage, made.value)
                /\ rng' = rng + Len(made.value)
    /\ pc' = "done"
    /\ UNCHANGED <<project, input, run, pmName, workspacePackages, issues, firstOutput>>

\* apply-fix.ts:1105-1115 and 1117-1130
SuggestGeneral ==
    /\ pc = "generate"
    /\ ~Truthy(input.targetPackage)
    /\ LET made == generateGeneralSolutions(pmName, OrElse(input.strategy, "balanced"),
                                            project.random, rng)
       IN  /\ output' = SuggestResult(input.targetPackage, made)
           /\ rng' = rng + Len(made)
    /\ pc' = "done"
    /\ UNCHANGED <<project, input, run, pmName, workspacePackages, issues, firstOutput>>

SuggestNext ==
    \/ SuggestReadManifest
    \/ SuggestDetectEnvironment
    \/ SuggestForPackage
    \/ SuggestGeneral

\* ---- projects and requests of suggest_solutions

Strategies == {"conservative", "aggressive", "balanced"}

SuggestInput(targetPackage, targetVersion, strategy, allowMajorUpgrade) ==
    [targetPackage |-> targetPackage, targetVersion |-> targetVersion,
     strategy |-> strategy, allowMajorUpgrade |-> allowMajorUpgrade]

\* the root manifest as suggestSolutions reads it
SuggestManifest(readable, packageManager, dependencies, devDependencies) ==
    [readable |-> readable, packageManager |-> packageManager,
     dependencies |-> dependencies, devDependencies |-> devDependencies]

\* how the root manifest declares the package x (an empty requirement
\* string is the range of every version)
RootDeclarations ==
    {[dependencies |-> <<>>, devDependencies |-> <<>>],
     [dependencies |-> <<Dep("x", "^1.2.0")>>, devDependencies |-> <<>>],
     [dependencies |-> <<>>, devDependencies |-> <<Dep("x", "^1.2.0")>>],
     [dependencies |-> <<Dep("x", "2.0.0")>>, devDependencies |-> <<>>],
     [dependencies |-> <<Dep("x", "")>>, devDependencies |-> <<>>],
     [dependencies |-> <<Dep("x", "")>>, devDependencies |-> <<Dep("x", "^1.2.0")>>],
     [dependencies |-> <<Dep("x", "1.x")>>, devDependencies |-> <<Dep("x", "^2.0.0")>>]}

\* part_002:32-65 getPackageInfo: null (not found, network error), or the
\* document the registry answered with
PackageInfo(found, hasDistTags, latest) ==
    [found |-> found, hasDistTags |-> hasDistTags, latest |-> latest]

PackageInfos ==
    {PackageInfo(FALSE, FALSE, Undefined), PackageInfo(TRUE, FALSE, Undefined),
     PackageInfo(TRUE, TRUE, Undefined), PackageInfo(TRUE, TRUE, "1.3.0"),
     PackageInfo(TRUE, TRUE, "2.0.0")}

\* the directories the workspace patterns match, in matching order: a
\* directory that two patterns match is listed twice (detector.ts:163-184)
SuggestMemberLists ==
    {<<>>,
     <<SomeMembers[1]>>,
     <<SomeMembers[1], SomeMembers[2]>>,
     <<SomeMembers[1], Member(TRUE, "B", <<Dep("y", "^3.0.0")>>, <<>>)>>,
     <<SomeMembers[1], SomeMembers[1]>>,
     SomeMembers,
     <<SomeMembers[1], SomeMembers[2], SomeMembers[4],
       Member(TRUE, "E", <<Dep("x", "")>>, <<>>)>>}

\* the next MaxDraws numbers of Math.random: at most one of them is 0
RandomDraws ==
    {[i \in 1..MaxDraws |-> IF i = z THEN "0" ELSE Base36[i]] : z \in 0..MaxDraws}

SuggestProject(manifest, lockFiles, members, packageInfo, random) ==
    [manifest |-> manifest, lockFiles |-> lockFiles, members |-> members,
     packageInfo |-> packageInfo, random |-> random]

\* A project whose root manifest cannot be read, or a request without a
\* target package, or a request for the package x; a fact that the request
\* does not read is left at its default.
InitSuggest ==
    /\ Fresh
    /\ rng = 0
    /\ pc = "suggest"
    /\ pmName = ""
    /\ workspacePackages = <<>>
    /\ \E ev \in PmEvidence, random \in RandomDraws, strategy \in Strategies :
         \/ /\ input = SuggestInput("x", Undefined, "balanced", FALSE)
            /\ project = SuggestProject(SuggestManifest(FALSE, "", <<>>, <<>>), {}, <<>>,
                                        PackageInfo(FALSE, FALSE, Undefined),
                                        [i \in 1..MaxDraws |-> Base36[i]])
         \/ \E targetPackage \in {Undefined, ""} :
              /\ input = SuggestInput(targetPackage, Undefined, strategy, FALSE)
              /\ project = SuggestProject(
                             SuggestManifest(TRUE, ev.packageManager, <<>>, <<>>),
                             ev.lockFiles, <<>>, PackageInfo(FALSE, FALSE, Undefined),
                             random)
         \/ \E targetVersion \in {Undefined, "1.3.0", "2.0.0"},
               allowMajorUpgrade \in BOOLEAN, decl \in RootDeclarations,
               info \in PackageInfos, members \in SuggestMemberLists :
              /\ input = SuggestInput("x", targetVersion, strategy, allowMajorUpgrade)
              /\ project = SuggestProject(
                             SuggestManifest(TRUE, ev.packageManager, decl.dependencies,
                                             decl.devDependencies),
                             ev.lockFiles, members, info, random)

SpecSuggest == InitSuggest /\ [][SuggestNext]_vars

----------------------------------------------------------------------------
(* Properties of suggest_solutions.                                        *)

\* a request for a target package has been answered
AnsweredForPackage == Returned /\ Truthy(input.targetPackage)

\* the candidates of the answer whose title is of the given template
Candidates(template) ==
    SelectSeq(output.solutions, LAMBDA c : c.title[1] = template)

\* the latest published version, when the registry made one known
KnownLatest ==
    IF project.packageInfo.found /\ project.packageInfo.hasDistTags
    THEN project.packageInfo.latest ELSE Undefined

\* what the root manifest declares for the target package, dependencies first
CurrentVersion ==
    OrElse(Lookup(project.manifest.dependencies, input.targetPackage),
           Lookup(project.manifest.devDependencies, input.targetPackage))

\* from the current version to the latest one the leading number grows
MajorBumpToLatest ==
    /\ Truthy(CurrentVersion)
    /\ LeadingComponent(CurrentVersion) >= 0
    /\ LeadingComponent(KnownLatest) > LeadingComponent(CurrentVersion)

\* C14: an upgrade-to-latest candidate is proposed only if a latest version is
\* known and differs from the current version; when the change is a major
\* bump it is proposed only under the "aggressive" strategy or with
\* allowMajorUpgrade; and under "balanced" or "conservative" without
\* allowMajorUpgrade no proposed upgrade-to-latest candidate is flagged breaking.
C14_UpgradeToLatestRespectsStrategy ==
    AnsweredForPackage =>
      \A c \in Range(Candidates("upgrade to latest")) :
        /\ Truthy(KnownLatest)
        /\ KnownLatest # CurrentVersion
        /\ MajorBumpToLatest =>
             (input.strategy = "aggressive" \/ input.allowMajorUpgrade)
        /\ (input.strategy # "aggressive" /\ ~input.allowMajorUpgrade) =>
             ~c.compatibility.breakingChanges

\* a major bump under "balanced" was not proposed, next to other candidates
C14_Witness ==
    /\ AnsweredForPackage
    /\ input.strategy = "balanced"
    /\ ~input.allowMajorUpgrade
    /\ MajorBumpToLatest
    /\ Candidates("upgrade to latest") = <<>>
    /\ output.solutions # <<>>

\* the same major bump under "aggressive" was proposed, flagged breaking
C14_WitnessAggressive ==
    /\ AnsweredForPackage
    /\ input.strategy = "aggressive"
    /\ MajorBumpToLatest
    /\ \E c \in Range(Candidates("upgrade to latest")) : c.compatibility.breakingChanges

\* the root manifest declares the target package, in dependencies or in
\* devDependencies
DeclaredInRoot ==
    \/ HasKey(project.manifest.dependencies, input.targetPackage)
    \/ HasKey(project.manifest.devDependencies, input.targetPackage)

\* C15: when the root manifest declares the target package, the force-pin
\* (override) candidate is not proposed and no candidate has a step with
\* action "override".
C15_OverrideOnlyForTransitive ==
    (AnsweredForPackage /\ DeclaredInRoot) =>
      /\ Candidates("override") = <<>>
      /\ \A c \in Range(output.solutions) :
           \A i \in 1..Len(c.steps) : c.steps[i].action # "override"

\* the root manifest declares the target package with a requirement string
\* that is not empty
DeclaredInRootNotEmpty ==
    \/ Truthy(Lookup(project.manifest.dependencies, input.targetPackage))
    \/ Lookup(project.manifest.devDependencies, input.targetPackage) # Undefined

\* a package declared with a requirement that is not empty gets no override
C15_HoldsForNonEmptyRequirement ==
    (AnsweredForPackage /\ DeclaredInRootNotEmpty) =>
      /\ Candidates("override") = <<>>
      /\ \A c \in Range(output.solutions) :
           \A i \in 1..Len(c.steps) : c.steps[i].action # "override"

\* the workspace members (directories with a readable manifest) that declare
\* the target package, in dependencies or in devDependencies
DeclaringMembers ==
    {m \in Range(project.members) :
       /\ m.readable
       /\ \/ HasKey(m.dependencies, input.targetPackage)
          \/ HasKey(m.devDependencies, input.targetPackage)}

\* the steps of a candidate that are aimed at the manifest of member m
StepsFor(c, m) ==
    SelectSeq(c.steps, LAMBDA st : st.file = m.relativePath \o "/package.json")

\* C16: a workspace-unify candidate is proposed only when more than one
\* workspace member declares the target package; it then has exactly one
\* step for each declaring member, aimed at that member's manifest, and no
\* other step.
C16_UnifyOneStepPerDeclaringMember ==
    AnsweredForPackage =>
      \A c \in Range(Candidates("unify")) :
        /\ Cardinality(DeclaringMembers) > 1
        /\ \A m \in DeclaringMembers : Len(StepsFor(c, m)) = 1
        /\ Len(c.steps) = Cardinality(DeclaringMembers)

\* no directory of the workspace is matched by two patterns
MembersListedOnce ==
    \A i, j \in 1..Len(project.members) :
      project.members[i].relativePath = project.members[j].relativePath => i = j

\* with every member listed once the unify candidate is as described, and it
\* is proposed whenever more than one member declares the package
C16_HoldsForMembersListedOnce ==
    (AnsweredForPackage /\ MembersListedOnce) =>
      /\ \A c \in Range(Candidates("unify")) :
           /\ Cardinality(DeclaringMembers) > 1
           /\ \A m \in DeclaringMembers : Len(StepsFor(c, m)) = 1
           /\ Len(c.steps) = Cardinality(DeclaringMembers)
      /\ Cardinality(DeclaringMembers) > 1 => Len(Candidates("unify")) = 1

\* a request without a target package has been answered
AnsweredGeneral == Returned /\ ~Truthy(input.targetPackage)

\* the title templates of the answer's candidates, in order
Templates == [i \in 1..Len(output.solutions) |-> output.solutions[i].title[1]]

\* C17: without a target package the answer holds the dedupe and the
\* lock-regeneration candidates under every strategy, the bulk update-all
\* candidate exactly under "aggressive", and no candidate for a package.
C17_GeneralCandidates ==
    AnsweredGeneral =>
      /\ Len(Candidates("dedupe")) = 1
      /\ Len(Candidates("regenerate lock")) = 1
      /\ Len(Candidates("update all")) = (IF input.strategy = "aggressive" THEN 1 ELSE 0)
      /\ Range(Templates) \subseteq {"dedupe", "regenerate lock", "update all"}
      /\ \A c \in Range(output.solutions) : c.forIssue = "general"

\* under "aggressive" the three general candidates were returned
C17_Witness ==
    /\ AnsweredGeneral
    /\ input.strategy = "aggressive"
    /\ Templates = <<"dedupe", "regenerate lock", "update all">>

\* under "balanced" only the first two
C17_WitnessBalanced ==
    /\ AnsweredGeneral
    /\ input.strategy = "balanced"
    /\ Templates = <<"dedupe", "regenerate lock">>

\* the target package is not declared by the root manifest and the registry
\* made a latest version known
TransitiveWithKnownLatest ==
    AnsweredForPackage /\ ~DeclaredInRoot /\ Truthy(KnownLatest)

\* C18: for a package the root manifest does not declare and whose latest
\* version is known, the answer holds one upgrade-to-latest candidate, not
\* breaking and of score 90, and one override candidate of score 65; the
\* upgrade comes before the override in the ranking by score, and the
\* recommended candidate is never the override.
C18_UpgradeRankedAboveOverride ==
    TransitiveWithKnownLatest =>
      LET upgrades  == Candidates("upgrade to latest")
          overrides == Candidates("override")
          ranking   == SortByScore(output.comparison.matrix, <<>>)
      IN  /\ Len(upgrades) = 1
          /\ ~upgrades[1].compatibility.breakingChanges
          /\ upgrades[1].recommendation.score = 90
          /\ Len(overrides) = 1
          /\ overrides[1].recommendation.score = 65
          /\ \E i, j \in 1..Len(ranking) :
               /\ i < j
               /\ ranking[i].title = upgrades[1].title
               /\ ranking[j].title = overrides[1].title
          /\ output.comparison.recommended # overrides[1].id
          /\ output.comparison.recommended \in {upgrades[1].id, Null}

\* upgrade, explicit target, override and unify were proposed together and
\* the upgrade is the recommended one
C18_Witness ==
    /\ TransitiveWithKnownLatest
    /\ Len(output.solutions) = 4
    /\ output.comparison.recommended = Candidates("upgrade to latest")[1].id
    /\ output.comparison.recommended # Null

\* the score table: the score of a candidate by the template of its title
\* and its breaking flag
TableScore(c) ==
    CASE c.title[1] = "upgrade to latest" ->
           IF c.compatibility.breakingChanges THEN 60 ELSE 90
      [] c.title[1] = "upgrade to"        -> 75
      [] c.title[1] = "override"          -> 65
      [] c.title[1] = "unify"             -> 85
      [] c.title[1] = "dedupe"            -> 95
      [] c.title[1] = "regenerate lock"   -> 70
      [] c.title[1] = "update all"        -> 40
      [] OTHER                            -> -1

\* C19: the recommendation score of every candidate is the value the score
\* table gives for its kind (and, for the upgrade to latest, its breaking
\* flag), whatever the rest of the request and the project; it lies in 0..100,
\* and the comparison matrix carries the same score.
C19_ScoresFollowTheTable ==
    Returned =>
      /\ \A c \in Range(output.solutions) :
           /\ c.recommendation.score = TableScore(c)
           /\ c.recommendation.score \in 0..100
      /\ \A i \in 1..Len(output.solutions) :
           output.comparison.matrix[i].recommendation = TableScore(output.solutions[i])

\* a breaking upgrade to latest (60) next to an explicit target (75) and a
\* workspace unification (85)
C19_Witness ==
    /\ AnsweredForPackage
    /\ \E c \in Range(Candidates("upgrade to latest")) :
         c.compatibility.breakingChanges /\ c.recommendation.score = 60
    /\ \E c \in Range(Candidates("upgrade to")) : c.recommendation.score = 75
    /\ \E c \in Range(Candidates("unify")) : c.recommendation.score = 85

\* the highest score among the candidates of the answer
TopScore ==
    CHOOSE n \in {c.recommendation.score : c \in Range(output.solutions)} :
      \A c \in Range(output.solutions) : c.recommendation.score <= n

\* the candidate generated first among those of the highest score
FirstOfTopScore ==
    output.solutions[CHOOSE i \in 1..Len(output.solutions) :
                       /\ output.solutions[i].recommendation.score = TopScore
                       /\ \A j \in 1..(i - 1) :
                            output.solutions[j].recommendation.score < TopScore]

\* the matrix has one row per candidate, in generation order
MatrixFollowsSolutions ==
    /\ Len(output.comparison.matrix) = Len(output.solutions)
    /\ \A i \in 1..Len(output.solutions) :
         /\ output.comparison.matrix[i].solutionId = output.solutions[i].id
         /\ output.comparison.matrix[i].title = output.solutions[i].title

\* C20: the recommended id is null exactly when there are no candidates;
\* otherwise it is the id of the candidate generated first among those of
\* the highest score; and the matrix has one row per candidate, in
\* generation order.
C20_RecommendedIsFirstOfTopScore ==
    Returned =>
      /\ MatrixFollowsSolutions
      /\ (output.comparison.recommended = Null) <=> (output.solutions = <<>>)
      /\ output.solutions # <<>> =>
           output.comparison.recommended = FirstOfTopScore.id

\* every id of the answer is a string that is not empty
IdsNotEmpty == \A c \in Range(output.solutions) : c.id # ""

\* with ids that are not empty the comparison is as described
C20_HoldsForNonEmptyIds ==
    (Returned /\ IdsNotEmpty) =>
      /\ MatrixFollowsSolutions
      /\ (output.comparison.recommended = Null) <=> (output.solutions = <<>>)
      /\ output.solutions # <<>> =>
           output.comparison.recommended = FirstOfTopScore.id

\* ---- generateComparison on its own: arrays of candidates with distinct
\* ids, among them the empty one, and with scores that may be shared

CandidateArrays ==
    {[i \in 1..Len(a) |->
        [Solution("x", <<"candidate", a[i].id>>, <<>>, "low", FALSE, <<"x">>,
                  a[i].score, "minor") EXCEPT !.id = a[i].id]] :
     a \in {b \in SeqUpTo([id : {"", "4fzyo82m", "9c1x7hq2", "k3j8s0a1"},
                           score : {65, 90}], MaxSolutions) :
              \A i, j \in 1..Len(b) : b[i].id = b[j].id => i = j}}

CallGenerateComparison ==
    Call("generateComparison",
         [status |-> "returned", solutions |-> input.solutions,
          comparison |-> generateComparison(input.solutions)])

InitComparison ==
    \E solutions \in CandidateArrays :
      Calling([fn |-> "generateComparison", solutions |-> solutions])

SpecComparison == InitComparison /\ [][CallGenerateComparison]_vars

\* two candidates share the highest score and the first of them is recommended
TieBrokenByGenerationOrder ==
    /\ Returned
    /\ Len(output.solutions) = 3
    /\ output.solutions[1].recommendation.score = 65
    /\ output.solutions[2].recommendation.score = 90
    /\ output.solutions[3].recommendation.score = 90
    /\ output.comparison.recommended = output.solutions[2].id
    /\ output.comparison.recommended # Null

----------------------------------------------------------------------------
(* Risk level and breaking flag of the candidates of suggest_solutions.    *)

\* a step of the candidate is aimed at something other than the one package
\* the candidate was generated for: the lock file, node_modules, or all
\* dependencies
GraphWide(c) == \E i \in 1..Len(c.steps) : c.steps[i].target # c.forIssue

\* C21: a candidate that is flagged breaking or that mutates the whole graph
\* (dedupe, lock regeneration, bulk update-all) has risk level high or medium,
\* and a candidate that is a single-package, non-breaking, scoped change has
\* risk level low.
C21_RiskFollowsBreakingAndScope ==
    Returned =>
      \A c \in Range(output.solutions) :
        IF c.compatibility.breakingChanges \/ GraphWide(c)
        THEN c.risk.level \in {"high", "medium"}
        ELSE c.risk.level = "low"

\* apart from the dedupe candidate the risk levels are as described
C21_HoldsExceptDedupe ==
    Returned =>
      \A c \in Range(output.solutions) :
        c.title[1] # "dedupe" =>
          IF c.compatibility.breakingChanges \/ GraphWide(c)
          THEN c.risk.level \in {"high", "medium"}
          ELSE c.risk.level = "low"

\* the dedupe candidate, whose one step rewrites the whole graph, at low risk
DedupeAtLowRisk ==
    /\ AnsweredGeneral
    /\ \E c \in Range(Candidates("dedupe")) :
         /\ GraphWide(c)
         /\ c.steps[1].action = "dedupe"
         /\ c.risk.level = "low"

\* the version the candidate's steps move the package to
MovedTo(c) == c.steps[1].to

\* from the current version to the given one the leading number grows
MajorBumpTo(version) ==
    /\ Truthy(CurrentVersion)
    /\ Truthy(version)
    /\ LeadingComponent(CurrentVersion) >= 0
    /\ LeadingComponent(version) > LeadingComponent(CurrentVersion)

\* C22: for every candidate for a package, compatibility.breakingChanges is
\* true exactly when the version the candidate's steps move the package to is
\* a major bump over the current version; a force-pin or workspace-unify
\* candidate to a major bump is flagged breaking.
C22_BreakingIsMajorBump ==
    AnsweredForPackage =>
      \A c \in Range(output.solutions) :
        c.compatibility.breakingChanges <=> MajorBumpTo(MovedTo(c))

\* for the two upgrade candidates and the override candidate the flag is
\* the major bump
C22_HoldsExceptUnify ==
    AnsweredForPackage =>
      \A c \in Range(output.solutions) :
        c.title[1] # "unify" =>
          (c.compatibility.breakingChanges <=> MajorBumpTo(MovedTo(c)))

\* a workspace-unify candidate to a major bump that is not flagged breaking
UnifyToMajorBumpNotBreaking ==
    /\ AnsweredForPackage
    /\ \E c \in Range(Candidates("unify")) :
         /\ MajorBumpTo(MovedTo(c))
         /\ ~c.compatibility.breakingChanges

----------------------------------------------------------------------------
(* The registry client (RegistryClient and the module-level cache).        *)
(*                                                                         *)
(* The variables are used as follows: input is the array of the calls made *)
(* so far, pc the position of each call ("fetch": awaiting the response,   *)
(* the abort timer armed; "json": awaiting the body, the timer cleared;    *)
(* "done"), output what each call returned, and run the clock, counted in  *)
(* minutes, and the cache.                                                 *)

\* part_002:13  5 * 60 * 1000 ms, in minutes
CACHE_TTL == 5

\* part_002:25
DefaultRegistry == "https://registry.npmjs.org"

Mirror == "https://mirror.example"

\* part_002:24-27  the registry of new RegistryClient({registry})
RegistryOf(options) == OrElse(options.registry, DefaultRegistry)

PackageNames == {"a", "b"}

NoDocument ==
    [from |-> "", name |-> "", rev |-> 0, published |-> FALSE, latest |-> "",
     versions |-> <<>>]

\* The documents a registry answers with.  "a" is published: at first with
\* 1.2.0 alone, later with 1.3.0 as latest.  "b" was unpublished: its
\* document has neither dist-tags nor versions.
Document(registry, name, rev) ==
    [from |-> registry, name |-> name, rev |-> rev,
     published |-> name = "a",
     latest |-> IF name # "a" THEN "" ELSE IF rev = 1 THEN "1.2.0" ELSE "1.3.0",
     versions |->
       IF name # "a" THEN <<>>
       ELSE <<[k |-> "1.2.0", v |-> <<[k |-> "deprecated", v |-> "use 1.3.0"]>>]>>
            \o (IF rev = 1 THEN <<>>
                ELSE <<[k |-> "1.3.0",
                        v |-> <<[k |-> "peerDependencies", v |-> <<Dep("y", "^1.0.0")>>],
                                [k |-> "engines", v |-> <<Dep("node", ">=18")>>]>>]>>)]

\* the revisions of its document a registry may answer with
Revisions(name) == IF name = "a" THEN {1, 2} ELSE {1}

\* the empty Map
EmptyCache == [n \in PackageNames |-> [present |-> FALSE, data |-> NoDocument,
                                       timestamp |-> 0]]

\* what a call has returned so far: cached tells what the call found in the
\* cache ("fresh": an entry that answers it; "expired" or "none": the request
\* is sent), failure why the lookup failed, data the document of
\* getPackageInfo (found) or null
Pending ==
    [status |-> "pending", cached |-> "none", failure |-> "none", found |-> FALSE,
     data |-> NoDocument]

\* obj[key] of an object whose values are of several kinds
Field(obj, key) == obj[CHOOSE i \in 1..Len(obj) : obj[i].k = key].v

\* part_002:71-81: the version's entry in an array, or the empty array for
\* null  (versions[version] of a document without versions is a
\* TypeError)
getVersionInfo(packageInfo, version) ==
    IF ~packageInfo.found THEN Ok(<<>>)
    ELSE IF ~packageInfo.data.published THEN Raise
    ELSE IF HasKey(packageInfo.data.versions, version)
         THEN Ok(<<Field(packageInfo.data.versions, version)>>)
         ELSE Ok(<<>>)

\* part_002:86-93
getLatestVersion(packageInfo) ==
    IF ~packageInfo.found THEN Ok(Null)
    ELSE IF ~packageInfo.data.published THEN Raise
    ELSE Ok(OrElse(packageInfo.data.latest, Null))

\* part_002:98-105
getAllVersions(packageInfo) ==
    IF ~packageInfo.found THEN Ok(<<>>)
    ELSE IF ~packageInfo.data.published THEN Raise
    ELSE Ok([i \in 1..Len(packageInfo.data.versions) |-> packageInfo.data.versions[i].k])

\* part_002:110-120
getPeerDependencies(packageInfo, version) ==
    LET versionInfo == getVersionInfo(packageInfo, version)
    IN  IF versionInfo.threw THEN Raise
        ELSE IF versionInfo.value = <<>> THEN Ok(<<>>)
        ELSE IF HasKey(versionInfo.value[1], "peerDependencies")
             THEN Ok(Field(versionInfo.value[1], "peerDependencies"))
             ELSE Ok(<<>>)

\* part_002:153-163
getEngines(packageInfo, version) ==
    LET versionInfo == getVersionInfo(packageInfo, version)
    IN  IF versionInfo.threw THEN Raise
        ELSE IF versionInfo.value = <<>> THEN Ok(<<>>)
        ELSE IF HasKey(versionInfo.value[1], "engines")
             THEN Ok(Field(versionInfo.value[1], "engines"))
             ELSE Ok(<<>>)

\* part_002:141-148
isDeprecated(packageInfo, version) ==
    LET versionInfo == getVersionInfo(packageInfo, version)
    IN  IF versionInfo.threw THEN Raise
        ELSE IF versionInfo.value = <<>> THEN Ok(Null)
        ELSE IF HasKey(versionInfo.value[1], "deprecated")
             THEN Ok(OrElse(Field(versionInfo.value[1], "deprecated"), Null))
             ELSE Ok(Null)

\* what the function called makes of the packageInfo its getPackageInfo
\* returned: the value it returns, or the TypeError it raises
Answer(call, packageInfo) ==
    CASE call.fn = "getPackageInfo"      -> Ok(Undefined)
      [] call.fn = "getLatestVersion"    -> getLatestVersion(packageInfo)
      [] call.fn = "getAllVersions"      -> getAllVersions(packageInfo)
      [] call.fn = "getPeerDependencies" ->
           getPeerDependencies(packageInfo, call.version)
      [] call.fn = "getEngines"          -> getEngines(packageInfo, call.version)
      [] call.fn = "isDeprecated"        -> isDeprecated(packageInfo, call.version)

\* the call once its getPackageInfo has settled with packageInfo
Settled(call, packageInfo) ==
    [packageInfo EXCEPT
       !.status = IF Answer(call, packageInfo).threw THEN "threw" ELSE "returned"]

\* most calls made
MaxCalls == 2
\* the last minute of the clock
MaxTime == 6

Accessors ==
    {"getLatestVersion", "getAllVersions", "getPeerDependencies", "getEngines",
     "isDeprecated"}

\* the calls made: getPackageInfo through a client of either registry, the
\* accessors through the default client
RegistryCalls ==
    [fn : {"getPackageInfo"}, name : PackageNames, version : {Undefined},
     options : {[registry |-> Undefined], [registry |-> Mirror]}]
    \cup [fn : {"getLatestVersion", "getAllVersions"}, name : PackageNames,
          version : {Undefined}, options : {[registry |-> Undefined]}]
    \cup [fn : Accessors \ {"getLatestVersion", "getAllVersions"}, name : PackageNames,
          version : {"1.3.0"}, options : {[registry |-> Undefined]}]

\* an entry that is present and not older than CACHE_TTL
IsFreshAtTtl(cached, now) == cached.present /\ now - cached.timestamp <= CACHE_TTL

\* part_002:35  cached && Date.now() - cached.timestamp < CACHE_TTL
IsFresh(cached, now) == cached.present /\ now - cached.timestamp < CACHE_TTL

\* part_002:33-37: a call is made; an entry younger than CACHE_TTL answers it
\* at once, otherwise the request is sent (part_002:39-49)
GetPackageInfo ==
    /\ Len(input) < MaxCalls
    /\ \E call \in RegistryCalls :
         LET cached == run.cache[call.name]
         IN  /\ input' = Append(input, call)
             /\ IF IsFresh(cached, run.now)
                THEN /\ pc' = Append(pc, "done")
                     /\ output' = Append(output,
                          Settled(call, [Pending EXCEPT
                                           !.cached = "fresh", !.found = TRUE,
                                           !.data = cached.data]))
                ELSE /\ pc' = Append(pc, "fetch")
                     /\ output' = Append(output,
                          [Pending EXCEPT
                             !.cached = IF cached.present THEN "expired" ELSE "none"])
    /\ UNCHANGED <<project, run, pmName, workspacePackages, issues, firstOutput, rng>>

\* the lookup of call c fails and the entry of its name is deleted
FailsAndEvicts(c, failure) ==
    /\ pc' = [pc EXCEPT ![c] = "done"]
    /\ output' = [output EXCEPT ![c] = Settled(input[c], [@ EXCEPT !.failure = failure])]
    /\ run' = [run EXCEPT !.cache[input[c].name] = EmptyCache[input[c].name]]
    /\ UNCHANGED <<project, input, pmName, workspacePackages, issues, firstOutput, rng>>

\* part_002:52-54 and 62-64: the lookup of call c fails, getPackageInfo
\* returns null
Fails(c, failure) ==
    /\ pc' = [pc EXCEPT ![c] = "done"]
    /\ output' = [output EXCEPT ![c] = Settled(input[c], [@ EXCEPT !.failure = failure])]
    /\ UNCHANGED <<project, input, run, pmName, workspacePackages, issues,
                   firstOutput, rng>>

\* fetch settles for one call at a time, in the order the calls were made
FetchSettlesInTurn(c) ==
    /\ c \in 1..Len(pc)
    /\ pc[c] = "fetch"
    /\ \A d \in 1..(c - 1) : pc[d] = "done"
    /\ \/ /\ pc' = [pc EXCEPT ![c] = "json"]
          /\ UNCHANGED <<project, input, run, pmName, workspacePackages, issues,
                         output, firstOutput, rng>>
       \/ \E failure \in {"status", "network", "timeout"} : Fails(c, failure)

\* part_002:44-54 and 62-64: fetch settles.  The response is OK, or it is
\* not (return null), or fetch rejects: a network error, or the abort of
\* the timer (catch: return null)
FetchSettles(c) ==
    /\ c \in 1..Len(pc)
    /\ pc[c] = "fetch"
    /\ \/ /\ pc' = [pc EXCEPT ![c] = "json"]
          /\ UNCHANGED <<project, input, run, pmName, workspacePackages, issues,
                         output, firstOutput, rng>>
       \/ \E failure \in {"status", "network", "timeout"} : Fails(c, failure)

\* part_002:56-64: response.json() settles.  The body is a document of the
\* registry asked, stored under the name with the time of now, or it cannot
\* be read or parsed (catch: return null)
BodySettles(c) ==
    /\ c \in 1..Len(pc)
    /\ pc[c] = "json"
    /\ \/ \E rev \in Revisions(input[c].name) :
            LET data == Document(RegistryOf(input[c].options), input[c].name, rev)
            IN  /\ run' = [run EXCEPT !.cache[input[c].name] =
                             [present |-> TRUE, data |-> data, timestamp |-> run.now]]
                /\ pc' = [pc EXCEPT ![c] = "done"]
                /\ output' = [output EXCEPT ![c] =
                                Settled(input[c], [@ EXCEPT !.found = TRUE,
                                                            !.data = data])]
                /\ UNCHANGED <<project, input, pmName, workspacePackages, issues,
                               firstOutput, rng>>
       \/ Fails(c, "parse")

\* part_002:167-169
clearCache ==
    /\ run' = [run EXCEPT !.cache = EmptyCache]
    /\ UNCHANGED <<project, input, pc, pmName, workspacePackages, issues, output,
                   firstOutput, rng>>

\* a minute passes (Date.now)
Tick ==
    /\ run.now < MaxTime
    /\ run' = [run EXCEPT !.now = @ + 1]
    /\ UNCHANGED <<project, input, pc, pmName, workspacePackages, issues, output,
                   firstOutput, rng>>

RegistryNext ==
    \/ GetPackageInfo
    \/ \E c \in 1..MaxCalls : FetchSettles(c)
    \/ \E c \in 1..MaxCalls : BodySettles(c)
    \/ clearCache
    \/ Tick

\* the module is loaded: no call yet, the cache empty
InitRegistry ==
    /\ project = DefaultProject
    /\ input = <<>>
    /\ pc = <<>>
    /\ output = <<>>
    /\ run = [now |-> 0, cache |-> EmptyCache]
    /\ pmName = ""
    /\ workspacePackages = <<>>
    /\ issues = <<>>
    /\ firstOutput = NoOutput
    /\ rng = 0

SpecRegistry == InitRegistry /\ [][RegistryNext]_vars

\* Every response settles: fetch resolves or rejects, at the latest when the
\* abort timer fires (part_002:42), and the body that response.json() reads
\* arrives or fails.
SpecRegistryFair ==
    /\ SpecRegistry
    /\ \A c \in 1..MaxCalls : WF_vars(FetchSettles(c)) /\ WF_vars(BodySettles(c))

----------------------------------------------------------------------------
(* Properties of the registry client.                                      *)

\* the step makes a call
CallMade == Len(input') = Len(input) + 1

\* the step ends call c with a document read from the response
Stored(c) == pc[c] = "json" /\ pc'[c] = "done" /\ output'[c].found

\* the step changes the cache and nothing else
CacheAlone == run'.cache # run.cache /\ run'.now = run.now /\ output' = output

ExpiredEntryOverwritten ==
    /\ Len(output) = 2
    /\ pc[2] = "done"
    /\ output[1].found /\ output[1].data.rev = 1
    /\ output[2].cached = "expired" /\ output[2].found /\ output[2].data.rev = 2
    /\ run.cache[input[2].name].data = output[2].data
    /\ run.cache[input[2].name].timestamp >= 5


\* the step ends call c with a lookup that failed
Failed(c) == pc[c] # "done" /\ pc'[c] = "done" /\ output'[c].failure # "none"

\* the empty or unknown value of the function: null, [] or {}
IsEmptyAnswer(call, result) ==
    /\ result.status = "returned"
    /\ ~result.found
    /\ CASE call.fn \in {"getLatestVersion", "isDeprecated"} ->
              Answer(call, result).value = "null"
         [] call.fn \in {"getAllVersions", "getPeerDependencies", "getEngines"} ->
              Answer(call, result).value = <<>>
         [] OTHER -> TRUE

\* C24: a lookup that fails (a response that is not OK, a network error, the
\* abort of the timer, a body that cannot be parsed) returns null and does
\* not raise, leaves the cache as it was, and every accessor built on it
\* returns its empty value.
C24_FailedLookupIsUnknown ==
    [][\A c \in 1..Len(pc) :
         /\ (pc[c] # "done" /\ pc'[c] = "done" /\ ~output'[c].found) =>
              output'[c].failure \in {"status", "network", "timeout", "parse"}
         /\ Failed(c) =>
              /\ IsEmptyAnswer(input[c], output'[c])
              /\ run' = run]_vars

\* the entry of "a" had expired when isDeprecated looked "a" up, the lookup
\* failed, null was returned and the expired entry is still in the cache
C24_Witness ==
    /\ Len(output) = 2
    /\ input[1].name = "a" /\ input[2].name = "a"
    /\ input[2].fn = "isDeprecated"
    /\ output[1].found
    /\ pc[2] = "done"
    /\ output[2].cached = "expired"
    /\ output[2].failure = "timeout"
    /\ output[2].status = "returned"
    /\ Answer(input[2], output[2]).value = "null"
    /\ run.cache["a"].present
    /\ run.cache["a"].data = output[1].data
    /\ run.now - run.cache["a"].timestamp >= 5

\* call c has completed with null or with a document of its own name
Completed(c) ==
    /\ c <= Len(pc)
    /\ pc[c] = "done"
    /\ output[c].found => output[c].data.name = input[c].name

\* the step changes nothing of a call other than c
OthersUntouched(c) ==
    \A d \in 1..Len(pc) : d # c => (pc'[d] = pc[d] /\ output'[d] = output[d])

ClientRegistry(c) ==
    IF Truthy(input[c].options.registry) THEN input[c].options.registry
    ELSE "https://registry.npmjs.org"

\* C26: getPackageInfo through a client made for the registry R never
\* returns a document that was fetched from another registry.
C26_DocumentOfOwnRegistry ==
    \A c \in 1..Len(pc) :
      (pc[c] = "done" /\ output[c].found) => output[c].data.from = ClientRegistry(c)

\* every call was made through a client of the same registry
OneRegistry == \A c, d \in 1..Len(input) : input[c].options = input[d].options

\* as long as all clients are of one registry the documents are its own
C26_HoldsForOneRegistry == OneRegistry => C26_DocumentOfOwnRegistry

\* the client of the mirror was answered with the document the default
\* client had fetched from registry.npmjs.org
MirrorAnsweredFromDefault ==
    /\ Len(output) = 2
    /\ input[1].options.registry = Undefined
    /\ input[2].options.registry = Mirror
    /\ input[2].fn = "getPackageInfo"
    /\ output[2].cached = "fresh"
    /\ output[2].data.from = "https://registry.npmjs.org"

----------------------------------------------------------------------------
(* apply_fix (applyFix and detectPeerDependencyIssues).                    *)
(*                                                                         *)
(* The variables are used as follows: project is the disk (package.json,   *)
(* lock files) and what the tools and the registry answer, input the       *)
(* ApplyFixInput, pc the position of applyFix, run its local variables and *)
(* the commands executed so far, output the FixResult.                     *)

\* most fixes of a manual fix list
MaxFixes == 2
\* most peer-dependency warnings the package manager prints
MaxWarnings == 2

\* an object of package.json that may be absent
Absent == [present |-> FALSE, entries |-> <<>>]

Present(entries) == [present |-> TRUE, entries |-> entries]

\* package.json as applyFix reads and writes it
FixManifest(readable, packageManager, dependencies, devDependencies, overrides, resolutions, pnpmOverrides) ==
    [readable |-> readable, packageManager |-> packageManager,
     dependencies |-> dependencies, devDependencies |-> devDependencies,
     peerDependencies |-> <<>>,
     overrides |-> overrides, resolutions |-> resolutions,
     pnpmOverrides |-> pnpmOverrides]

\* One line of a package manager's output that tells of a peer dependency.
\*   pnpm-unmet:    "✕ unmet peer <name>@<required>: found <found>"
\*   pnpm-missing:  "✕ missing peer <name>@<required>"
\*   npm-missing:   "npm warn peer dep missing: <name>@<required>, required by p"
\*   npm-conflict:  "npm warn peer dep conflict: <name>@<required> required by
\*                  p, but <name>@<found> installed" when labelled, and
\*                  "npm warn peer dependency <name>@<required> required by p
\*                  but <name>@<found> was installed" when not
Warning(kind, labelled, name, required, found) ==
    [kind |-> kind, labelled |-> labelled, name |-> name, required |-> required,
     found |-> found]

\* apply-fix.ts:313, 319  /✕ unmet peer (.+?)@(.+?): found (.+)/g
\* apply-fix.ts:314, 363  /✕ missing peer (.+?)@(.+?)(?:\s|$)/g
\* apply-fix.ts:395, 400  /peer dep(?:endency)? missing: (.+?)@(.+?),/g
\* apply-fix.ts:396, 427  /peer dep(?:endency)? (.+?)@(.+?) required .+ (.+?)@(.+?)
\*                        (?:installed|was installed)/gi : the first group
\*                        starts right after "peer dep ", so that it takes in
\*                        the label "conflict:" of a labelled line
Matches(printed, kind) ==
    LET lines == SelectSeq(printed, LAMBDA line : line.kind = kind)
    IN  [i \in 1..Len(lines) |->
           [pkgName  |-> IF kind = "npm-conflict" /\ lines[i].labelled
                         THEN "conflict: " \o lines[i].name
                         ELSE lines[i].name,
            required |-> lines[i].required,
            found    |-> lines[i].found]]

\* required.startsWith("^") || required.startsWith("~") || required.startsWith(">=")
StartsWithOperator(required) == required \in {"^1.2.0", "^2.0.0", ">=1.3.0"}

\* required.match(/[\d.]+/): the first run of digits and dots, or null
MatchDigitsAndDots(required) ==
    CASE required \in {"^1.2.0", "1.2.0"} -> "1.2.0"
      [] required \in {">=1.3.0", "1.3.0"} -> "1.3.0"
      [] required \in {"^2.0.0", "2.0.0"} -> "2.0.0"
      [] required = "<2" -> "2"
      [] required = "1.x" -> "1."
      [] OTHER -> Null

\* required.replace(/[<>=^~]/g, "")
WithoutOperators(required) ==
    CASE required = "^1.2.0" -> "1.2.0"
      [] required = ">=1.3.0" -> "1.3.0"
      [] required = "^2.0.0" -> "2.0.0"
      [] required = "<2" -> "2"
      [] OTHER -> required

\* registryClient.getPackageInfo(pkgName): the registry knows the packages
\* x and y
LookedUp(proj, pkgName) ==
    IF pkgName \in {"x", "y"} THEN proj.packageInfo
    ELSE [found |-> FALSE, versions |-> <<>>, latest |-> ""]

\* packageJson && (dependencies?.[pkgName] || devDependencies?.[pkgName])
IsDirectDep(packageJson, pkgName) ==
    /\ packageJson.readable
    /\ Truthy(OrElse(Lookup(packageJson.dependencies, pkgName),
                     Lookup(packageJson.devDependencies, pkgName)))

Fix(package, version, type) == [package |-> package, version |-> version, type |-> type]

\* apply-fix.ts:319-360: one turn of the loop over the pnpm "unmet" matches
UnmetFix(proj, match) ==
    LET pkgInfo    == LookedUp(proj, match.pkgName)
        satisfying == SemverMaxSatisfying(pkgInfo.versions, match.required).value
        digits     == MatchDigitsAndDots(match.required)
        version    == IF StartsWithOperator(match.required)
                      THEN IF pkgInfo.found
                           THEN IF satisfying # Null
                                THEN satisfying ELSE pkgInfo.latest
                           ELSE IF digits # Null THEN digits ELSE match.found
                      ELSE match.required
    IN  Fix(match.pkgName, version,
            IF IsDirectDep(proj.manifest, match.pkgName) THEN "upgrade" ELSE "override")

\* apply-fix.ts:363-390: one turn of the loop over the pnpm "missing" matches
MissingFix(proj, match) ==
    LET pkgInfo    == LookedUp(proj, match.pkgName)
        satisfying == SemverMaxSatisfying(pkgInfo.versions, match.required).value
        digits     == MatchDigitsAndDots(match.required)
        version    == IF pkgInfo.found
                      THEN IF satisfying # Null
                           THEN satisfying ELSE pkgInfo.latest
                      ELSE IF digits # Null THEN digits ELSE "latest"
    IN  Fix(match.pkgName, version, "install")

\* apply-fix.ts:407-417 and 434-444: the target version of the two npm loops
NpmTargetVersion(proj, match) ==
    LET pkgInfo    == LookedUp(proj, match.pkgName)
        satisfying == SemverMaxSatisfying(pkgInfo.versions, match.required).value
    IN  IF pkgInfo.found /\ satisfying # Null
        THEN satisfying ELSE WithoutOperators(match.required)

\* apply-fix.ts:400-424: one turn of the loop over the npm "missing" matches
NpmMissingFix(proj, match) ==
    Fix(match.pkgName, NpmTargetVersion(proj, match), "install")

\* apply-fix.ts:427-458: one turn of the loop over the npm "conflict" matches
NpmConflictFix(proj, match) ==
    Fix(match.pkgName, NpmTargetVersion(proj, match),
        IF IsDirectDep(proj.manifest, match.pkgName) THEN "upgrade" ELSE "override")

\* the fix of a match of the given kind
FixOf(proj, kind, match) ==
    CASE kind = "pnpm-unmet"   -> UnmetFix(proj, match)
      [] kind = "pnpm-missing" -> MissingFix(proj, match)
      [] kind = "npm-missing"  -> NpmMissingFix(proj, match)
      [] kind = "npm-conflict" -> NpmConflictFix(proj, match)

RECURSIVE Scan(_, _, _, _)
\* apply-fix.ts:319-324, 363-368, 400-405, 427-432: a match whose package has
\* a fix already is skipped
Scan(proj, kind, matches, fixes) ==
    IF matches = <<>> THEN fixes
    ELSE IF \E i \in 1..Len(fixes) : fixes[i].package = matches[1].pkgName
         THEN Scan(proj, kind, Tail(matches), fixes)
         ELSE Scan(proj, kind, Tail(matches),
                   Append(fixes, FixOf(proj, kind, matches[1])))

\* apply-fix.ts:293-305
DetectCommand(pm) ==
    CASE pm = "npm"  -> "npm install --dry-run 2>&1"
      [] pm = "pnpm" -> "pnpm install --dry-run 2>&1"
      [] pm = "yarn" -> "yarn install --dry-run 2>&1"
      [] OTHER       -> Null

\* apply-fix.ts:280-461  detectPeerDependencyIssues of apply-fix.ts: the
\* fixes for what the package manager printed, scanned for the four kinds in
\* turn
detectFixes(proj, pm) ==
    IF DetectCommand(pm) = Null THEN <<>>
    ELSE Scan(proj, "npm-conflict", Matches(proj.listing, "npm-conflict"),
           Scan(proj, "npm-missing", Matches(proj.listing, "npm-missing"),
             Scan(proj, "pnpm-missing", Matches(proj.listing, "pnpm-missing"),
               Scan(proj, "pnpm-unmet", Matches(proj.listing, "pnpm-unmet"), <<>>))))

\* apply-fix.ts:466-468
isDevDependency(packageJson, pkgName) ==
    Truthy(Lookup(packageJson.devDependencies, pkgName))

\* apply-fix.ts:473-479
getCurrentVersion(packageJson, pkgName) ==
    OrElse(Lookup(packageJson.dependencies, pkgName),
           OrElse(Lookup(packageJson.devDependencies, pkgName),
                  Lookup(packageJson.peerDependencies, pkgName)))

\* apply-fix.ts:484-500: the entries pkg@version of the group
groupByDevDep(pkgs, isDev) ==
    LET group == SelectSeq(pkgs, LAMBDA p : p.isDev = isDev)
    IN  [i \in 1..Len(group) |-> group[i].pkg \o "@" \o group[i].version]

\* apply-fix.ts:505-518
buildInstallCommand(pm, packages, isDev) ==
    LET pkgList == Join(packages, " ")
    IN  CASE pm = "npm"  -> IF isDev THEN "npm install -D " \o pkgList
                            ELSE "npm install " \o pkgList
          [] pm = "pnpm" -> IF isDev THEN "pnpm add -D " \o pkgList
                            ELSE "pnpm add " \o pkgList
          [] pm = "yarn" -> IF isDev THEN "yarn add -D " \o pkgList
                            ELSE "yarn add " \o pkgList
          [] OTHER       -> "npm install " \o (IF isDev THEN "-D " ELSE "") \o pkgList

\* apply-fix.ts:131-146: the object the overrides go to, made if absent
\* (pnpm.overrides for pnpm, resolutions for yarn, overrides otherwise)
InitOverrides(packageJson, pm) ==
    CASE pm = "pnpm" ->
           [packageJson EXCEPT !.pnpmOverrides = Present(@.entries)]
      [] pm = "yarn" ->
           [packageJson EXCEPT !.resolutions = Present(@.entries)]
      [] OTHER ->
           [packageJson EXCEPT !.overrides = Present(@.entries)]

\* apply-fix.ts:158-164
AddOverride(packageJson, pm, pkgName, version) ==
    CASE pm = "pnpm" ->
           [packageJson EXCEPT !.pnpmOverrides.entries = Put(@, pkgName, version)]
      [] pm = "yarn" ->
           [packageJson EXCEPT !.resolutions.entries = Put(@, pkgName, version)]
      [] OTHER ->
           [packageJson EXCEPT !.overrides.entries = Put(@, pkgName, version)]

\* the FixResult
NoResult ==
    [status |-> "none", success |-> TRUE, appliedFixes |-> <<>>,
     modifiedFiles |-> <<>>, commands |-> <<>>, errors |-> <<>>, warnings |-> <<>>]

\* the local variables of applyFix; executed are the commands handed to
\* execCommand so far
NoLocals ==
    [packageJson |-> FixManifest(FALSE, "", <<>>, <<>>, Absent, Absent, Absent),
     updatedPackageJson |-> FixManifest(FALSE, "", <<>>, <<>>, Absent, Absent, Absent),
     fixList |-> <<>>, installCommands |-> <<>>, upgradeCommands |-> <<>>,
     executed |-> <<>>]

AppliedFix(package, action, from, to) ==
    [package |-> package, action |-> action, from |-> from, to |-> to]

RECURSIVE ApplyFixes(_, _, _)
\* apply-fix.ts:153-194: the loop over the fix list; at is the locals and
\* the result so far
ApplyFixes(fixList, pm, at) ==
    IF fixList = <<>> THEN at
    ELSE LET fix   == fixList[1]
             isDev == isDevDependency(at.locals.packageJson, fix.package)
             entry == [pkg |-> fix.package, version |-> fix.version, isDev |-> isDev]
             next  ==
               CASE fix.type = "override" ->
                      [at EXCEPT
                         !.locals.updatedPackageJson =
                            AddOverride(@, pm, fix.package, fix.version),
                         !.result.appliedFixes =
                            Append(@, AppliedFix(fix.package, "override", Undefined,
                                                 fix.version))]
                 [] fix.type = "install" ->
                      [at EXCEPT
                         !.locals.installCommands = Append(@, entry),
                         !.result.appliedFixes =
                            Append(@, AppliedFix(fix.package, "install", Undefined,
                                                 fix.version))]
                 [] fix.type = "upgrade" ->
                      [at EXCEPT
                         !.locals.upgradeCommands = Append(@, entry),
                         !.result.appliedFixes =
                            Append(@, AppliedFix(fix.package, "upgrade",
                                                 getCurrentVersion(at.locals.packageJson,
                                                                   fix.package),
                                                 fix.version))]
         IN  ApplyFixes(Tail(fixList), pm, next)

\* apply-fix.ts:196-246: the commands in the order they are built: installs
\* of dependencies, of devDependencies, upgrades of dependencies, of
\* devDependencies, a group without packages left out
Planned(pm, locals) ==
    LET Group(pkgs, isDev, failed) ==
          IF groupByDevDep(pkgs, isDev) = <<>> THEN <<>>
          ELSE <<[cmd |-> buildInstallCommand(pm, groupByDevDep(pkgs, isDev), isDev),
                  pkgs |-> SelectSeq(pkgs, LAMBDA p : p.isDev = isDev),
                  isDev |-> isDev, failed |-> failed]>>
    IN  Group(locals.installCommands, FALSE, "install failed")
        \o Group(locals.installCommands, TRUE, "install of devDependencies failed")
        \o Group(locals.upgradeCommands, FALSE, "upgrade failed")
        \o Group(locals.upgradeCommands, TRUE, "upgrade of devDependencies failed")

\* the exit code of the n-th command handed to execCommand
ExitCode(proj, n) == IF n \in 1..Len(proj.exits) THEN proj.exits[n] ELSE 0

RECURSIVE Saved(_, _, _)
\* what an install or add command that succeeds does to package.json: the
\* packages are entered, with the version asked for, in dependencies, or in
\* devDependencies with -D
Saved(manifest, pkgs, isDev) ==
    IF pkgs = <<>> THEN manifest
    ELSE Saved(IF isDev
               THEN [manifest EXCEPT
                       !.devDependencies = Put(@, pkgs[1].pkg, pkgs[1].version)]
               ELSE [manifest EXCEPT
                       !.dependencies = Put(@, pkgs[1].pkg, pkgs[1].version)],
               Tail(pkgs), isDev)

RECURSIVE RunCommands(_, _, _)
\* apply-fix.ts:200-246: each command is reported and, unless dryRun,
\* executed; at is the disk, the locals and the result so far
RunCommands(planned, dryRun, at) ==
    IF planned = <<>> THEN at
    ELSE LET command  == planned[1]
             reported == [at EXCEPT !.result.commands = Append(@, command.cmd)]
             exitCode == ExitCode(at.disk, Len(at.locals.executed) + 1)
             ran      == [reported EXCEPT
                            !.locals.executed = Append(@, command.cmd),
                            !.disk.manifest =
                               IF exitCode = 0
                               THEN Saved(@, command.pkgs, command.isDev) ELSE @,
                            !.result.warnings =
                               IF exitCode # 0 THEN Append(@, command.failed) ELSE @]
         IN  RunCommands(Tail(planned), dryRun, IF dryRun THEN reported ELSE ran)

\* apply-fix.ts:90-120: the package manager is detected, package.json is
\* read (an error is thrown if it cannot be), the manual fixes are taken
ApplyFixRead ==
    /\ pc = "applyFix"
    /\ pmName' = detectPackageManager(project)
    /\ IF ~project.manifest.readable
       THEN /\ pc' = "done"
            /\ output' = [output EXCEPT !.status = "threw"]
            /\ run' = run
       ELSE /\ run' = [run EXCEPT !.packageJson = project.manifest,
                                  !.fixList = input.fixes]
            /\ output' = output
            /\ pc' = IF input.autoDetect /\ Len(input.fixes) = 0
                     THEN "detect" ELSE "fixes"
    /\ UNCHANGED <<project, input, workspacePackages, issues, firstOutput, rng>>

\* apply-fix.ts:116-120 and 280-461
ApplyFixDetect ==
    /\ pc = "detect"
    /\ run' = [run EXCEPT
                 !.fixList = detectFixes(project, pmName),
                 !.executed = IF DetectCommand(pmName) = Null THEN @
                              ELSE Append(@, DetectCommand(pmName))]
    /\ pc' = "fixes"
    /\ UNCHANGED <<project, input, pmName, workspacePackages, issues, output,
                   firstOutput, rng>>

\* apply-fix.ts:122-194: nothing to fix, or the overrides object is made
\* and the fixes are gone through
ApplyFixPrepare ==
    /\ pc = "fixes"
    /\ IF Len(run.fixList) = 0
       THEN /\ output' = [output EXCEPT !.status = "returned",
                                        !.warnings = Append(@, "nothing to fix")]
            /\ run' = run
            /\ pc' = "done"
       ELSE LET at == ApplyFixes(run.fixList, pmName,
                        [locals |-> [run EXCEPT !.updatedPackageJson =
                                       InitOverrides(run.packageJson, pmName)],
                         result |-> output])
            IN  /\ run' = at.locals
                /\ output' = at.result
                /\ pc' = "commands"
    /\ UNCHANGED <<project, input, pmName, workspacePackages, issues, firstOutput, rng>>

\* apply-fix.ts:196-246
ApplyFixCommands ==
    /\ pc = "commands"
    /\ LET at == RunCommands(Planned(pmName, run), input.dryRun,
                             [disk |-> project, locals |-> run, result |-> output])
       IN  /\ project' = at.disk
           /\ run' = at.locals
           /\ output' = at.result
    /\ pc' = "write"
    /\ UNCHANGED <<input, pmName, workspacePackages, issues, firstOutput, rng>>

\* apply-fix.ts:249-271: unless dryRun, package.json is written and, with
\* reinstall, the install command is run; with dryRun both are told of
ApplyFixWrite ==
    /\ pc = "write"
    /\ LET installCmd == pmName \o " install"
           exitCode   == ExitCode(project, Len(run.executed) + 1)
       IN  IF ~input.dryRun
           THEN /\ project' = [project EXCEPT
                                 !.manifest = run.updatedPackageJson]
                /\ run' = IF input.reinstall
                          THEN [run EXCEPT !.executed = Append(@, installCmd)]
                          ELSE run
                /\ output' =
                     [output EXCEPT
                        !.status = "returned",
                        !.modifiedFiles = Append(@, "package.json"),
                        !.commands = IF input.reinstall THEN Append(@, installCmd)
                                     ELSE @,
                        !.warnings = IF input.reinstall /\ exitCode # 0
                                     THEN Append(@, "install returned a non-zero exit code")
                                     ELSE @]
           ELSE /\ project' = project
                /\ run' = run
                /\ output' =
                     [output EXCEPT
                        !.status = "returned",
                        !.commands = @ \o <<"# will modify package.json",
                                            "# will run " \o installCmd>>]
    /\ pc' = "done"
    /\ UNCHANGED <<input, pmName, workspacePackages, issues, firstOutput, rng>>

ApplyFixNext ==
    \/ ApplyFixRead
    \/ ApplyFixDetect
    \/ ApplyFixPrepare
    \/ ApplyFixCommands
    \/ ApplyFixWrite

\* ---- projects and requests of apply_fix

\* the ApplyFixInput; fixes is fixes || [] (apply-fix.ts:114)
ApplyFixInput(fixes, autoDetect, dryRun, reinstall) ==
    [fixes |-> fixes, autoDetect |-> autoDetect, dryRun |-> dryRun,
     reinstall |-> reinstall]

\* how package.json declares the packages x and y
FixDeclarations ==
    {[dependencies |-> <<>>, devDependencies |-> <<>>],
     [dependencies |-> <<Dep("x", "^1.2.0")>>, devDependencies |-> <<>>],
     [dependencies |-> <<>>, devDependencies |-> <<Dep("y", "^1.2.0")>>],
     [dependencies |-> <<Dep("x", "")>>, devDependencies |-> <<>>]}

\* a manual fix list
FixLists ==
    SeqUpTo([package : {"x", "y"}, version : {"2.0.0"},
             type : {"override", "install", "upgrade"}], MaxFixes)

\* what the package manager prints on install --dry-run
Warnings ==
    {Warning(kind, FALSE, name, required, "1.0.0") :
       kind \in {"pnpm-unmet", "pnpm-missing", "npm-missing", "npm-conflict"},
       name \in {"x", "y"}, required \in {"^1.2.0", "*"}}
    \cup {Warning("npm-conflict", TRUE, name, "^1.2.0", "1.0.0") : name \in {"x", "y"}}

Listings == SeqUpTo(Warnings, MaxWarnings)

\* what the registry answers for x and for y
RegistryAnswers ==
    {[found |-> FALSE, versions |-> <<>>, latest |-> ""],
     [found |-> TRUE, versions |-> <<"1.2.0", "1.3.0", "2.0.0">>, latest |-> "2.0.0"]}

FixProject(manifest, lockFiles, listing, packageInfo, exits) ==
    [manifest |-> manifest, lockFiles |-> lockFiles, listing |-> listing,
     packageInfo |-> packageInfo, exits |-> exits]

\* A project whose package.json cannot be read; or a request with a manual
\* fix list; or a request without one on a project whose package manager
\* prints warnings.  A fact that the request does not read is left at its
\* default.
InitApplyFix ==
    /\ pc = "applyFix"
    /\ pmName = ""
    /\ workspacePackages = <<>>
    /\ issues = <<>>
    /\ firstOutput = NoOutput
    /\ rng = 0
    /\ run = NoLocals
    /\ output = NoResult
    /\ \E ev \in PmEvidence, dryRun \in BOOLEAN, reinstall \in BOOLEAN,
          decl \in FixDeclarations :
         \/ /\ input = ApplyFixInput(<<>>, TRUE, dryRun, reinstall)
            /\ project = FixProject(
                           FixManifest(FALSE, "", <<>>, <<>>, Absent, Absent, Absent),
                           ev.lockFiles, <<>>,
                           [found |-> FALSE, versions |-> <<>>, latest |-> ""], <<>>)
         \/ \E fixes \in FixLists, autoDetect \in BOOLEAN,
               forced \in {Absent, Present(<<Dep("z", "1.0.0")>>)},
               exits \in {<<>>, <<1>>, <<0, 1>>, <<1, 1, 1>>} :
              /\ fixes = <<>> => ~autoDetect
              /\ input = ApplyFixInput(fixes, autoDetect, dryRun, reinstall)
              /\ project = FixProject(
                             FixManifest(TRUE, ev.packageManager, decl.dependencies,
                                         decl.devDependencies, forced, forced, forced),
                             ev.lockFiles, <<>>,
                             [found |-> FALSE, versions |-> <<>>, latest |-> ""],
                             exits)
         \/ \E listing \in Listings, packageInfo \in RegistryAnswers,
               exits \in {<<>>, <<0, 1, 1>>} :
              /\ input = ApplyFixInput(<<>>, TRUE, dryRun, reinstall)
              /\ project = FixProject(
                             FixManifest(TRUE, ev.packageManager, decl.dependencies,
                                         decl.devDependencies, Absent, Absent, Absent),
                             ev.lockFiles, listing, packageInfo, exits)

SpecApplyFix == InitApplyFix /\ [][ApplyFixNext]_vars

----------------------------------------------------------------------------
(* Properties of apply_fix.                                                *)

\* applyFix has returned its result
Fixed == pc = "done" /\ output.status = "returned"

\* the command that lists the warnings was run
Detected ==
    /\ Len(run.executed) >= 1
    /\ run.executed[1] = pmName \o " install --dry-run 2>&1"

\* the commands a run that is not dry executes for the fix list: the
\* install and upgrade commands, then, with reinstall, the install command
WouldExecute ==
    IF Len(run.fixList) = 0 THEN <<>>
    ELSE [i \in 1..Len(Planned(pmName, run)) |-> Planned(pmName, run)[i].cmd]
         \o (IF input.reinstall THEN <<pmName \o " install">> ELSE <<>>)

\* a run that is not dry executes these commands, after the command that
\* lists the warnings if it was run, and reports them
NotDryExecutesAndReports ==
    (Fixed /\ ~input.dryRun) =>
      /\ output.commands = WouldExecute
      /\ run.executed = (IF Detected THEN <<run.executed[1]>> ELSE <<>>) \o WouldExecute

\* the commands a dry run announces: the note of the change of package.json
\* is left out and "# will run c" is read as c
Announced ==
    LET commands == SelectSeq(output.commands,
                              LAMBDA c : c # "# will modify package.json")
    IN  [i \in 1..Len(commands) |->
           IF commands[i] = "# will run " \o pmName \o " install"
           THEN pmName \o " install" ELSE commands[i]]

\* with dryRun nothing is written and no command other than the listing of
\* the warnings is executed
DryRunLeavesDisk ==
    /\ [][input.dryRun => project' = project]_vars
    /\ [](input.dryRun =>
            /\ output.modifiedFiles = <<>>
            /\ \A i \in 1..Len(run.executed) : i = 1 /\ Detected)

\* C27: with dryRun, for every fix list, manual or detected, package.json is
\* not written and no install, add, upgrade or reinstall command is executed,
\* modifiedFiles is empty, the manifest on disk after the call is the one
\* before it, and the commands reported are the ones the run that is not dry
\* would execute.
C27_DryRunOnlyPreviews ==
    /\ DryRunLeavesDisk
    /\ []((Fixed /\ input.dryRun) => Announced = WouldExecute)

\* with reinstall the dry run announces what the other run executes
C27_HoldsWithReinstall ==
    /\ DryRunLeavesDisk
    /\ []((Fixed /\ input.dryRun /\ input.reinstall) => Announced = WouldExecute)

\* a dry run without reinstall that announces the install command
DryRunAnnouncesReinstall ==
    /\ Fixed
    /\ input.dryRun /\ ~input.reinstall
    /\ Len(run.fixList) > 0
    /\ output.commands[Len(output.commands)] = "# will run " \o pmName \o " install"

\* the place of a kind of warning in the scan
KindRank(kind) ==
    CASE kind = "pnpm-unmet"   -> 1
      [] kind = "pnpm-missing" -> 2
      [] kind = "npm-missing"  -> 3
      [] kind = "npm-conflict" -> 4

\* warning i is scanned before any other warning that names its package
FirstToName(i) ==
    LET l == project.listing
    IN  \A j \in 1..Len(l) :
          (j # i /\ l[j].name = l[i].name) =>
            \/ KindRank(l[i].kind) < KindRank(l[j].kind)
            \/ KindRank(l[i].kind) = KindRank(l[j].kind) /\ i < j

\* package.json declares the package in dependencies or devDependencies
DirectlyDeclared(name) ==
    \/ HasKey(project.manifest.dependencies, name)
    \/ HasKey(project.manifest.devDependencies, name)

\* the type of the fix for a warning
TypeFor(warning) ==
    IF warning.kind \in {"pnpm-missing", "npm-missing"} THEN "install"
    ELSE IF DirectlyDeclared(warning.name) THEN "upgrade"
    ELSE "override"

\* the fix list comes from the detection
AfterDetection == pc \in {"fixes", "commands", "write", "done"} /\ Detected

\* the detection runs exactly when autoDetect is set and there is no manual fix
DetectionOnlyWithoutManualFixes ==
    (pc \in {"fixes", "commands", "write"} \/ Fixed) =>
      (Detected <=> (input.autoDetect /\ Len(input.fixes) = 0))

\* every package named by a warning has a fix of the type for the first
\* warning that names it
TypesFollowKinds ==
    AfterDetection =>
      \A i \in 1..Len(project.listing) :
        FirstToName(i) =>
          \E f \in Range(run.fixList) :
            /\ f.package = project.listing[i].name
            /\ f.type = TypeFor(project.listing[i])

\* C28: auto-detection gives a missing peer dependency an "install" fix, a
\* version-mismatched package that package.json declares in dependencies or
\* devDependencies an "upgrade" fix, and a version-mismatched package that it
\* does not declare an "override" fix; it runs only when there is no manual
\* fix list and autoDetect is true.
C28_FixTypeByProblemKind == DetectionOnlyWithoutManualFixes /\ TypesFollowKinds

\* no conflict line carries the label "conflict:" and no requirement of
\* package.json is the empty string
PlainWarnings ==
    /\ \A i \in 1..Len(project.listing) : ~project.listing[i].labelled
    /\ \A d \in Range(project.manifest.dependencies) : d.v # ""

C28_HoldsForPlainWarnings ==
    DetectionOnlyWithoutManualFixes /\ (PlainWarnings => TypesFollowKinds)

\* the labelled conflict line for x, which package.json declares, gave an
\* "override" fix for the package "conflict: x"
LabelledConflictMisnamed ==
    /\ AfterDetection
    /\ project.listing = <<Warning("npm-conflict", TRUE, "x", "^1.2.0", "1.0.0")>>
    /\ DirectlyDeclared("x")
    /\ Len(run.fixList) = 1
    /\ run.fixList[1].package = "conflict: x"
    /\ run.fixList[1].type = "override"

\* C29: when a run that is not dry has executed install or upgrade commands,
\* the final write of package.json keeps what they entered in dependencies
\* and devDependencies.
C29_FinalWriteKeepsInstalled ==
    [][(pc = "write" /\ pc' = "done" /\ ~input.dryRun) =>
         /\ project'.manifest.dependencies = project.manifest.dependencies
         /\ project'.manifest.devDependencies = project.manifest.devDependencies]_vars

\* the final write keeps the two objects when no command has changed them
C29_HoldsWhenNothingInstalled ==
    [][(/\ pc = "write" /\ pc' = "done" /\ ~input.dryRun
        /\ project.manifest.dependencies = run.packageJson.dependencies
        /\ project.manifest.devDependencies = run.packageJson.devDependencies) =>
         /\ project'.manifest.dependencies = project.manifest.dependencies
         /\ project'.manifest.devDependencies = project.manifest.devDependencies]_vars

\* the install of y succeeded and reinstall was run, yet package.json does
\* not declare y
InstalledPackageLost ==
    /\ Fixed
    /\ ~input.dryRun
    /\ input.fixes = <<Fix("y", "2.0.0", "install")>>
    /\ project.exits = <<>>
    /\ output.warnings = <<>>
    /\ Len(run.executed) = 2
    /\ ~HasKey(project.manifest.dependencies, "y")
    /\ ~HasKey(project.manifest.devDependencies, "y")

\* the packages the warnings name
NamedPackages == {project.listing[i].name : i \in 1..Len(project.listing)}

\* one fix for each package named, an "install" fix exactly when the first
\* warning that names the package tells of a missing one
OneFixPerNamedPackage ==
    AfterDetection =>
      /\ \A i, j \in 1..Len(run.fixList) :
           run.fixList[i].package = run.fixList[j].package => i = j
      /\ Len(run.fixList) = Cardinality(NamedPackages)
      /\ \A i \in 1..Len(project.listing) :
           FirstToName(i) =>
             \E f \in Range(run.fixList) :
               /\ f.package = project.listing[i].name
               /\ (f.type = "install") <=>
                    (project.listing[i].kind \in {"pnpm-missing", "npm-missing"})

\* C30: the detected fix list has at most one fix per package name, whatever
\* mix and repetition of warnings is printed; when several warnings name a
\* package its fix comes from the first of them in the scan order pnpm-unmet,
\* pnpm-missing, npm-missing, npm-conflict, and the later ones are ignored.
C30_OneFixPerPackage == OneFixPerNamedPackage

C30_HoldsForUnlabelledLines ==
    (\A i \in 1..Len(project.listing) : ~project.listing[i].labelled) =>
      OneFixPerNamedPackage

\* x is named by a missing line and by a labelled conflict line, and there
\* are two fixes
TwoFixesForOnePackage ==
    /\ AfterDetection
    /\ Len(project.listing) = 2
    /\ \A i \in 1..2 : project.listing[i].name = "x"
    /\ Len(run.fixList) = 2
    /\ run.fixList[1].package = "x"
    /\ run.fixList[2].package = "conflict: x"

============================================================================
